---- MODULE Spec2Model ----
(***************************************************************************)
(* Model of DetectionService (venn-custom-detection, detection-module):    *)
(* the scope filter, the six detectors and the first-match pipeline of     *)
(* DetectionService.detect.                                                *)
(*                                                                         *)
(* JavaScript values are represented as follows.                           *)
(*   - an optional value is a sequence of length 0 (undefined) or 1;       *)
(*   - a numeric string (gasPrice, amount, volatility, price impact) is a  *)
(*     sequence of one-character strings, converted by parseInt and        *)
(*     parseFloat below;                                                   *)
(*   - a number is a record [nan, num, den] standing for num/den, or NaN;  *)
(*   - call data is a sequence of tokens: "0x" followed by one token per   *)
(*     byte (two characters each), so the first 10 characters are the      *)
(*     first 5 tokens;                                                     *)
(*   - an address is a string, lowered by toLowerCase.                     *)
(***************************************************************************)
EXTENDS Integers, Sequences, FiniteSets, TLC

VARIABLES request, response, pc, statics, log

\* the front end's write hook and its Venn client: the singleton's SDK handle,
\* the connected wallet, the position of protectedWrite, the parameters,
\* transaction and approval of the call in progress, and what has been asked
\* of the outside so far (SDK approvals granted, writeContract calls, toasts),
\* and the errors of the SDK that handleVennError has logged
VARIABLES vennClient, walletAddress, wpc, params, transaction, approvedTx, approvals, writes, toasts, vennErrors

hookVars == <<vennClient, walletAddress, wpc, params, transaction, approvedTx, approvals, writes, toasts, vennErrors>>

vars == <<request, response, pc, statics, log, hookVars>>

-----------------------------------------------------------------------------
(* Optional values *)

None == <<>>

Some(v) == <<v>>

IsSome(x) == Len(x) = 1

IsNone(x) == Len(x) = 0

Val(x) == x[1]

Opt(S) == {None} \cup {Some(v) : v \in S}

-----------------------------------------------------------------------------
(* Numbers: num/den with den > 0, or NaN *)

NaN == [nan |-> TRUE, num |-> 0, den |-> 1]

Num(n, d) == [nan |-> FALSE, num |-> n, den |-> d]

\* a > b on JavaScript numbers: false as soon as one side is NaN
NumGt(a, b) == ~a.nan /\ ~b.nan /\ a.num * b.den > b.num * a.den

NumLt(a, b) == ~a.nan /\ ~b.nan /\ a.num * b.den < b.num * a.den

NumAdd(a, b) ==
    IF a.nan \/ b.nan THEN NaN
    ELSE Num(a.num * b.den + b.num * a.den, a.den * b.den)

NumTimes(a, k) == IF a.nan THEN NaN ELSE Num(a.num * k, a.den)

-----------------------------------------------------------------------------
(* String to number conversions *)

HexChars == <<"0", "1", "2", "3", "4", "5", "6", "7", "8", "9",
              "a", "b", "c", "d", "e", "f">>

HexCharsUpper == <<"0", "1", "2", "3", "4", "5", "6", "7", "8", "9",
                   "A", "B", "C", "D", "E", "F">>

\* the value of character c in the given radix, or -1 when c is no digit of it
DigitValue(c, radix) ==
    IF \E i \in 1..radix : HexChars[i] = c
    THEN (CHOOSE i \in 1..radix : HexChars[i] = c) - 1
    ELSE IF \E i \in 1..radix : HexCharsUpper[i] = c
    THEN (CHOOSE i \in 1..radix : HexCharsUpper[i] = c) - 1
    ELSE -1

RECURSIVE ScanDigits(_, _, _, _, _)
\* the longest prefix of digits of s from position i on: how many, and their value
ScanDigits(s, i, radix, count, acc) ==
    IF i > Len(s) \/ DigitValue(s[i], radix) < 0
    THEN [n |-> count, v |-> acc]
    ELSE ScanDigits(s, i + 1, radix, count + 1, acc * radix + DigitValue(s[i], radix))

RECURSIVE TrimStart(_)
TrimStart(s) == IF s # <<>> /\ s[1] = " " THEN TrimStart(Tail(s)) ELSE s

RECURSIVE Pow10(_)
Pow10(k) == IF k = 0 THEN 1 ELSE 10 * Pow10(k - 1)

\* parseInt(string) with no radix argument
parseInt(s) ==
    LET t    == TrimStart(s)
        neg  == t # <<>> /\ t[1] = "-"
        u    == IF t # <<>> /\ t[1] \in {"+", "-"} THEN Tail(t) ELSE t
        hex  == Len(u) >= 2 /\ u[1] = "0" /\ u[2] \in {"x", "X"}
        body == IF hex THEN SubSeq(u, 3, Len(u)) ELSE u
        r    == ScanDigits(body, 1, IF hex THEN 16 ELSE 10, 0, 0)
    IN  IF r.n = 0 THEN NaN ELSE Num(IF neg THEN 0 - r.v ELSE r.v, 1)

\* parseFloat(string): sign, digits, an optional "." and digits; what follows
\* the longest such prefix (a "%" for instance) is ignored
parseFloat(s) ==
    LET t    == TrimStart(s)
        neg  == t # <<>> /\ t[1] = "-"
        u    == IF t # <<>> /\ t[1] \in {"+", "-"} THEN Tail(t) ELSE t
        ip   == ScanDigits(u, 1, 10, 0, 0)
        dot  == Len(u) > ip.n /\ u[ip.n + 1] = "."
        fp   == IF dot THEN ScanDigits(u, ip.n + 2, 10, 0, 0) ELSE [n |-> 0, v |-> 0]
        mag  == ip.v * Pow10(fp.n) + fp.v
    IN  IF ip.n = 0 /\ fp.n = 0 THEN NaN
        ELSE Num(IF neg THEN 0 - mag ELSE mag, Pow10(fp.n))

-----------------------------------------------------------------------------
(* Addresses *)

sandwichBotAddress == "0x4206904396d558D6fA240E0F788d30C831D4a6E7"

mevBotAddress == "0xC8F68Eccf2F05F32d29A8e949fDA3A222f6a9Bd7"

player1Address == "0xD8dA6BF26964aF9D7eEd9e03E53415D37aA96045"

player2Address == "0x690B9A9E9aa1C9dB991C7721a92d351Db4FaC990"

contractAddress == "0x7296c77Edd04092Fd6a8117c7f797E0680d97fa1"

liquidityPoolAddress == "0x8A7F7c5b0083eB7f8C3ba11dF9E37a5ac501B972"

\* the same addresses as a caller may spell them in lower case
sandwichBotLower == "0x4206904396d558d6fa240e0f788d30c831d4a6e7"

mevBotLower == "0xc8f68eccf2f05f32d29a8e949fda3a222f6a9bd7"

player1Lower == "0xd8da6bf26964af9d7eed9e03e53415d37aa96045"

player2Lower == "0x690b9a9e9aa1c9db991c7721a92d351db4fac990"

contractLower == "0x7296c77edd04092fd6a8117c7f797e0680d97fa1"

liquidityPoolLower == "0x8a7f7c5b0083eb7f8c3ba11df9e37a5ac501b972"

\* String.prototype.toLowerCase on the address strings of the model
toLowerCase(a) ==
    CASE a = sandwichBotAddress   -> sandwichBotLower
      [] a = mevBotAddress        -> mevBotLower
      [] a = player1Address       -> player1Lower
      [] a = player2Address       -> player2Lower
      [] a = contractAddress      -> contractLower
      [] a = liquidityPoolAddress -> liquidityPoolLower
      [] OTHER                    -> a

-----------------------------------------------------------------------------
(* Call data and function signatures *)

CREATE_GAME == <<"0x", "25", "aa", "99", "cd">>

JOIN_GAME == <<"0x", "ee", "9a", "31", "a2">>

MAKE_MOVE == <<"0x", "57", "a3", "3a", "7c">>

END_GAME == <<"0x", "3e", "43", "72", "d0">>

\* the static tables of DetectionService as the class sets them when loaded
StaticTables ==
    [FUNCTION_SIGNATURES |->
        [CREATE_GAME |-> CREATE_GAME, JOIN_GAME |-> JOIN_GAME, MAKE_MOVE |-> MAKE_MOVE,
         END_GAME |-> END_GAME, PLAYER1 |-> player1Address, PLAYER2 |-> player2Address],
     KNOWN_MEV_ADDRESSES |-> {toLowerCase(sandwichBotAddress), toLowerCase(mevBotAddress)}]

\* this.FUNCTION_SIGNATURES, as the detectors read it
FUNCTION_SIGNATURES == statics.FUNCTION_SIGNATURES

\* this.KNOWN_MEV_ADDRESSES: high-risk addresses known for MEV activity
KNOWN_MEV_ADDRESSES == statics.KNOWN_MEV_ADDRESSES

\* input.slice(0, 10): "0x" and four bytes, or the whole string when shorter
SliceSelector(input) ==
    SubSeq(input, 1, IF Len(input) < 5 THEN Len(input) ELSE 5)

\* String.prototype.startsWith
startsWith(s, prefix) ==
    Len(s) >= Len(prefix) /\ SubSeq(s, 1, Len(prefix)) = prefix

-----------------------------------------------------------------------------
(* Access to request.additionalData?.<view> *)

mempoolContextOf(req) ==
    IF IsNone(req.additionalData) THEN None ELSE Val(req.additionalData).mempoolContext

blockchainContextOf(req) ==
    IF IsNone(req.additionalData) THEN None ELSE Val(req.additionalData).blockchainContext

liquidityContextOf(req) ==
    IF IsNone(req.additionalData) THEN None ELSE Val(req.additionalData).liquidityContext

oracleContextOf(req) ==
    IF IsNone(req.additionalData) THEN None ELSE Val(req.additionalData).oracleContext

multisigInfoOf(req) ==
    IF IsNone(req.additionalData) THEN None ELSE Val(req.additionalData).multisigInfo

\* element i of a JavaScript array, counted from 0
At(arr, i) == arr[i + 1]

-----------------------------------------------------------------------------
(* Sandwich attack *)

SANDWICH_MIN_TXS == 3

RECURSIVE findIndexFrom(_, _, _)
\* Array.prototype.findIndex(tx => tx.hash === hash): first position, or -1
findIndexFrom(transactions, hash, i) ==
    IF i >= Len(transactions) THEN -1
    ELSE IF At(transactions, i).hash = hash THEN i
    ELSE findIndexFrom(transactions, hash, i + 1)

RECURSIVE findLastIndexFrom(_, _, _)
findLastIndexFrom(transactions, hash, i) ==
    IF i < 0 THEN -1
    ELSE IF At(transactions, i).hash = hash THEN i
    ELSE findLastIndexFrom(transactions, hash, i - 1)

\* the position of the last entry with the hash instead of the first
findLastIndex(transactions, hash) ==
    findLastIndexFrom(transactions, hash, Len(transactions) - 1)

findIndex(transactions, hash) == findIndexFrom(transactions, hash, 0)

\* a price-impact gate that a total of exactly 1.0 passes
priceImpactSignificantInclusive(priceImpact) ==
    LET total == NumAdd(parseFloat(priceImpact.before), parseFloat(priceImpact.after))
    IN  ~total.nan /\ total.num >= total.den

\* the price-impact gate: (beforeImpact + afterImpact) > 1.0
priceImpactSignificant(priceImpact) ==
    NumGt(NumAdd(parseFloat(priceImpact.before), parseFloat(priceImpact.after)),
          Num(1, 1))

isSandwichAttackPattern(req) ==
    LET mempoolContext == mempoolContextOf(req) IN
    IF IsNone(mempoolContext) \/ IsNone(Val(mempoolContext).blockTransactions)
    THEN FALSE
    ELSE
    LET transactions   == Val(Val(mempoolContext).blockTransactions)
        priceImpact    == Val(mempoolContext).priceImpact
    IN
    IF Len(transactions) < SANDWICH_MIN_TXS THEN FALSE
    ELSE
    LET firstTx        == At(transactions, 0)
        lastTx         == At(transactions, Len(transactions) - 1)
        targetPosition == findIndex(transactions, req.hash)
    IN
    IF targetPosition <= 0 \/ targetPosition >= Len(transactions) - 1 THEN FALSE
    ELSE
    IF /\ toLowerCase(firstTx.from) = toLowerCase(lastTx.from)
       /\ toLowerCase(firstTx.from) \in KNOWN_MEV_ADDRESSES
       /\ NumGt(parseInt(firstTx.gasPrice),
                parseInt(At(transactions, targetPosition).gasPrice))
       /\ NumGt(parseInt(lastTx.gasPrice),
                parseInt(At(transactions, targetPosition).gasPrice))
    THEN IF IsSome(priceImpact)
         THEN priceImpactSignificant(Val(priceImpact))
         ELSE TRUE
    ELSE FALSE

-----------------------------------------------------------------------------
(* Time-bandit attack *)

REORG_DEPTH_THRESHOLD == 2

\* truthiness of an optional boolean and of an optional number
TruthyBool(x) == IsSome(x) /\ Val(x) = TRUE

TruthyNumber(x) == IsSome(x) /\ Val(x) # 0

\* the check as the README documents it: reorgDepth !== undefined
documentedIsTimeBanditAttack(req) ==
    LET blockchainContext == blockchainContextOf(req) IN
    IF IsNone(blockchainContext) THEN FALSE
    ELSE
    IF /\ TruthyBool(Val(blockchainContext).isReorg)
       /\ IsSome(Val(blockchainContext).reorgDepth)
       /\ Val(Val(blockchainContext).reorgDepth) > REORG_DEPTH_THRESHOLD
    THEN TRUE
    ELSE FALSE

\* the depth compared with >= instead of >
isTimeBanditAttackInclusive(req) ==
    LET blockchainContext == blockchainContextOf(req) IN
    IF IsNone(blockchainContext) THEN FALSE
    ELSE
    IF /\ TruthyBool(Val(blockchainContext).isReorg)
       /\ TruthyNumber(Val(blockchainContext).reorgDepth)
       /\ Val(Val(blockchainContext).reorgDepth) >= REORG_DEPTH_THRESHOLD
    THEN TRUE
    ELSE FALSE

\* the isReorg flag left out of the condition
isTimeBanditAttackAnyDepth(req) ==
    LET blockchainContext == blockchainContextOf(req) IN
    IF IsNone(blockchainContext) THEN FALSE
    ELSE
    IF /\ TruthyNumber(Val(blockchainContext).reorgDepth)
       /\ Val(Val(blockchainContext).reorgDepth) > REORG_DEPTH_THRESHOLD
    THEN TRUE
    ELSE FALSE

isTimeBanditAttack(req) ==
    LET blockchainContext == blockchainContextOf(req) IN
    IF IsNone(blockchainContext) THEN FALSE
    ELSE
    IF /\ TruthyBool(Val(blockchainContext).isReorg)
       /\ TruthyNumber(Val(blockchainContext).reorgDepth)
       /\ Val(Val(blockchainContext).reorgDepth) > REORG_DEPTH_THRESHOLD
    THEN TRUE
    ELSE FALSE

-----------------------------------------------------------------------------
(* JIT liquidity attack *)

JIT_DURATION_THRESHOLD == 30

isJITLiquidityAttack(req) ==
    LET liquidityContext == liquidityContextOf(req) IN
    IF IsNone(liquidityContext) \/ IsNone(Val(liquidityContext).recentLiquidityEvents)
    THEN FALSE
    ELSE
    LET events       == Val(Val(liquidityContext).recentLiquidityEvents)
        duration     == Val(liquidityContext).liquidityDuration
        addEvents    == SelectSeq(events, LAMBDA e : e.type = "add")
        removeEvents == SelectSeq(events, LAMBDA e : e.type = "remove")
        playerEvents == SelectSeq(events, LAMBDA e : e.type = "playerTransaction")
    IN
    IF Len(addEvents) = 0 \/ Len(removeEvents) = 0 \/ Len(playerEvents) = 0
    THEN FALSE
    ELSE
    IF TruthyNumber(duration) /\ Val(duration) < JIT_DURATION_THRESHOLD
    THEN LET provider      == toLowerCase(At(addEvents, 0).address)
             addedAmount   == parseFloat(At(addEvents, 0).amount)
             removedAmount == parseFloat(At(removeEvents, 0).amount)
         IN  IF provider \in KNOWN_MEV_ADDRESSES THEN TRUE
             ELSE NumGt(removedAmount, addedAmount)
    ELSE FALSE

-----------------------------------------------------------------------------
(* Multisig validation bypass *)

MULTISIG_MIN_CALLS == 2

\* the detector with the test of the top-level selector left out
isMultisigValidationBypassAnySelector(functionSignature, req) ==
    LET calls == IF IsSome(req.trace.calls) THEN Val(req.trace.calls) ELSE <<>> IN
    IF Len(calls) < MULTISIG_MIN_CALLS THEN FALSE
    ELSE
    LET suspiciousCalls == SelectSeq(calls, LAMBDA call : startsWith(call.input, FUNCTION_SIGNATURES.END_GAME))
        multisigInfo    == multisigInfoOf(req)
    IN
    IF Len(suspiciousCalls) > 0
    THEN IF IsSome(multisigInfo)
         THEN Val(multisigInfo).presentPlayers < Val(multisigInfo).requiredPlayers
         ELSE TRUE
    ELSE FALSE

isMultisigValidationBypass(functionSignature, req) ==
    IF functionSignature # FUNCTION_SIGNATURES.MAKE_MOVE THEN FALSE
    ELSE
    LET calls == IF IsSome(req.trace.calls) THEN Val(req.trace.calls) ELSE <<>> IN
    IF Len(calls) < MULTISIG_MIN_CALLS THEN FALSE
    ELSE
    LET suspiciousCalls == SelectSeq(calls, LAMBDA call : startsWith(call.input, FUNCTION_SIGNATURES.END_GAME))
        multisigInfo    == multisigInfoOf(req)
    IN
    IF Len(suspiciousCalls) > 0
    THEN IF IsSome(multisigInfo)
         THEN Val(multisigInfo).presentPlayers < Val(multisigInfo).requiredPlayers
         ELSE TRUE
    ELSE FALSE

-----------------------------------------------------------------------------
(* Oracle manipulation *)

ORACLE_MIN_UPDATES == 2

ORACLE_VOLATILITY_FACTOR == 3

ORACLE_CHANGE_PERCENT == 10

\* confidenceScore > 0.8
CONFIDENCE_THRESHOLD == Num(8, 10)

\* Math.abs((newValue - oldValue) / oldValue) * 100 > 10.  A division of a
\* non-zero number by zero is an infinity (above every limit), 0 / 0 is NaN.
percentChangeExceeds(oldValue, newValue) ==
    IF oldValue.nan \/ newValue.nan THEN FALSE
    ELSE IF oldValue.num = 0 THEN newValue.num # 0
    ELSE LET diff  == newValue.num * oldValue.den - oldValue.num * newValue.den
             base  == oldValue.num * newValue.den
             adiff == IF diff < 0 THEN 0 - diff ELSE diff
             abase == IF base < 0 THEN 0 - base ELSE base
         IN  adiff * 100 > ORACLE_CHANGE_PERCENT * abase

\* attackVolatility > normalVolatility * 3 && confidenceScore > 0.8
volatilityIndicatesAttack(volatilityAnalysis) ==
    /\ NumGt(parseFloat(volatilityAnalysis.attackVolatility),
             NumTimes(parseFloat(volatilityAnalysis.normalVolatility),
                      ORACLE_VOLATILITY_FACTOR))
    /\ NumGt(volatilityAnalysis.confidenceScore, CONFIDENCE_THRESHOLD)

RECURSIVE oracleLoopRawFallback(_, _, _)
\* the loop with the raw-change heuristic applied also when a volatility
\* summary is supplied and does not meet the thresholds
oracleLoopRawFallback(updates, volatilityAnalysis, i) ==
    IF ~(i < Len(updates) - 1) THEN FALSE
    ELSE
    IF IsSome(volatilityAnalysis) /\ volatilityIndicatesAttack(Val(volatilityAnalysis))
    THEN TRUE
    ELSE IF /\ percentChangeExceeds(parseFloat(At(updates, i).oldValue),
                                    parseFloat(At(updates, i).newValue))
            /\ toLowerCase(At(updates, i).updater) \in KNOWN_MEV_ADDRESSES
         THEN TRUE
         ELSE oracleLoopRawFallback(updates, volatilityAnalysis, i + 1)

RECURSIVE oracleLoopRawFirst(_, _, _)
\* the loop with the volatility summary consulted only for an update whose
\* raw change is above the limit
oracleLoopRawFirst(updates, volatilityAnalysis, i) ==
    IF ~(i < Len(updates) - 1) THEN FALSE
    ELSE
    IF percentChangeExceeds(parseFloat(At(updates, i).oldValue),
                            parseFloat(At(updates, i).newValue))
    THEN IF IsSome(volatilityAnalysis)
         THEN IF volatilityIndicatesAttack(Val(volatilityAnalysis)) THEN TRUE
              ELSE oracleLoopRawFirst(updates, volatilityAnalysis, i + 1)
         ELSE IF toLowerCase(At(updates, i).updater) \in KNOWN_MEV_ADDRESSES
              THEN TRUE
              ELSE oracleLoopRawFirst(updates, volatilityAnalysis, i + 1)
    ELSE oracleLoopRawFirst(updates, volatilityAnalysis, i + 1)

RECURSIVE oracleLoop(_, _, _)
\* for (let i = 0; i < updates.length - 1; i++) { ... } return false
oracleLoop(updates, volatilityAnalysis, i) ==
    IF ~(i < Len(updates) - 1) THEN FALSE
    ELSE
    IF IsSome(volatilityAnalysis)
    THEN IF volatilityIndicatesAttack(Val(volatilityAnalysis)) THEN TRUE
         ELSE oracleLoop(updates, volatilityAnalysis, i + 1)
    ELSE IF /\ percentChangeExceeds(parseFloat(At(updates, i).oldValue),
                                    parseFloat(At(updates, i).newValue))
            /\ toLowerCase(At(updates, i).updater) \in KNOWN_MEV_ADDRESSES
         THEN TRUE
         ELSE oracleLoop(updates, volatilityAnalysis, i + 1)

isOracleManipulation(req) ==
    LET oracleContext == oracleContextOf(req) IN
    IF IsNone(oracleContext) \/ IsNone(Val(oracleContext).recentOracleUpdates)
    THEN FALSE
    ELSE
    LET updates == Val(Val(oracleContext).recentOracleUpdates) IN
    IF Len(updates) < ORACLE_MIN_UPDATES THEN FALSE
    ELSE oracleLoop(updates, Val(oracleContext).volatilityAnalysis, 0)

-----------------------------------------------------------------------------
(* Generalized frontrunning *)

FULL_SIMILARITY == "100%"

\* the test with the two senders compared as they are spelled
copiesPendingCaseSensitive(pendingTx, currentTx) ==
    /\ pendingTx.input = currentTx.input
    /\ NumGt(parseInt(currentTx.gasPrice), parseInt(pendingTx.gasPrice))
    /\ currentTx.from # pendingTx.from

\* the test inside the loop over pendingTransactions: same input, lower gas
\* price than the current transaction, other sender
copiesPending(pendingTx, currentTx) ==
    /\ pendingTx.input = currentTx.input
    /\ NumGt(parseInt(currentTx.gasPrice), parseInt(pendingTx.gasPrice))
    /\ toLowerCase(currentTx.from) # toLowerCase(pendingTx.from)

\* the loop left after its first iteration whatever that iteration finds
pendingLoopFirstOnly(pendingTxs, currentTx, i) ==
    IF i >= Len(pendingTxs) THEN [returned |-> FALSE, value |-> FALSE]
    ELSE IF copiesPending(At(pendingTxs, i), currentTx)
    THEN [returned |-> TRUE,
          value    |-> toLowerCase(currentTx.from) \in KNOWN_MEV_ADDRESSES]
    ELSE [returned |-> FALSE, value |-> FALSE]

RECURSIVE pendingLoopAnySender(_, _, _)
\* the loop reporting every copy at a higher gas price, whoever sends it
pendingLoopAnySender(pendingTxs, currentTx, i) ==
    IF i >= Len(pendingTxs) THEN [returned |-> FALSE, value |-> FALSE]
    ELSE IF copiesPending(At(pendingTxs, i), currentTx)
    THEN [returned |-> TRUE, value |-> TRUE]
    ELSE pendingLoopAnySender(pendingTxs, currentTx, i + 1)

RECURSIVE pendingLoop(_, _, _)
\* for (const pendingTx of pendingTxs) { ... }: [returned, value]
pendingLoop(pendingTxs, currentTx, i) ==
    IF i >= Len(pendingTxs) THEN [returned |-> FALSE, value |-> FALSE]
    ELSE IF copiesPending(At(pendingTxs, i), currentTx)
    THEN [returned |-> TRUE,
          value    |-> toLowerCase(currentTx.from) \in KNOWN_MEV_ADDRESSES]
    ELSE pendingLoop(pendingTxs, currentTx, i + 1)

isGeneralizedFrontrunning(req) ==
    LET mempoolContext == mempoolContextOf(req) IN
    IF IsNone(mempoolContext) THEN FALSE
    ELSE
    LET pendingTxs == IF IsSome(Val(mempoolContext).pendingTransactions)
                      THEN Val(Val(mempoolContext).pendingTransactions)
                      ELSE <<>>
        currentTx  == Val(mempoolContext).currentTransaction
        analysis   == Val(mempoolContext).similarityAnalysis
    IN
    IF IsNone(currentTx) \/ Len(pendingTxs) = 0 THEN FALSE
    ELSE
    LET scan == pendingLoop(pendingTxs, Val(currentTx), 0) IN
    IF scan.returned THEN scan.value
    ELSE IF /\ IsSome(analysis)
            /\ Val(analysis).isExactCopy
            /\ Val(analysis).inputSimilarity = FULL_SIMILARITY
            /\ toLowerCase(Val(currentTx).from) \in KNOWN_MEV_ADDRESSES
         THEN TRUE
         ELSE FALSE

-----------------------------------------------------------------------------
(* The pipeline *)

SANDWICH_MESSAGE ==
    "Sandwich attack pattern detected: Transaction is part of a sandwich attack that may extract value from players"

TIME_BANDIT_MESSAGE ==
    "Time-bandit attack detected: Potential chain reorganization targeting high-value games"

JIT_MESSAGE ==
    "JIT liquidity attack detected: Temporary liquidity provision to extract fees from players"

MULTISIG_MESSAGE ==
    "Multisig validation bypass attempt detected: Transaction attempts to circumvent two-player validation"

ORACLE_MESSAGE ==
    "Oracle manipulation attack detected: Price feed manipulation could affect game outcomes"

FRONTRUNNING_MESSAGE ==
    "Generalized frontrunning attack detected: Transaction copies player moves with higher gas price"

\* createResponse with the absent message defaulted to the empty string
createResponseDefaultMessage(req, detected, message) ==
    [request |-> req,
     detectionInfo |-> [detected |-> detected,
                        message  |-> IF IsNone(message) THEN Some("") ELSE message]]

\* createResponse echoing the recipient of the trace as the protocol address
createResponseEchoRecipient(req, detected, message) ==
    [request |-> [req EXCEPT !.protocolAddress = Some(req.trace.to)],
     detectionInfo |-> [detected |-> detected, message |-> message]]

\* createResponse(request, detected, message?): the argument handed to
\* new DetectionResponse
createResponse(req, detected, message) ==
    [request |-> req, detectionInfo |-> [detected |-> detected, message |-> message]]

\* new DetectionResponse({request, detectionInfo}): the response as the caller
\* receives it, with the identity fields of the request
DetectionResponse(init) ==
    [chainId |-> init.request.chainId, protocolAddress |-> init.request.protocolAddress,
     protocolName |-> init.request.protocolName,
     detected |-> init.detectionInfo.detected, message |-> init.detectionInfo.message]

\* the scope test applied only when a protocol address is declared
outOfScopeWhenDeclared(req) ==
    /\ IsSome(req.protocolAddress)
    /\ toLowerCase(req.trace.to) # toLowerCase(Val(req.protocolAddress))

\* to.toLowerCase() !== request.protocolAddress?.toLowerCase()
outOfScope(req) ==
    \/ IsNone(req.protocolAddress)
    \/ toLowerCase(req.trace.to) # toLowerCase(Val(req.protocolAddress))

\* detect with the time-bandit check moved ahead of the sandwich check
detectReorgFirst(req) ==
    IF outOfScope(req) THEN createResponse(req, FALSE, None)
    ELSE
    LET functionSignature == SliceSelector(req.trace.input) IN
    IF isTimeBanditAttack(req)
    THEN createResponse(req, TRUE, Some(TIME_BANDIT_MESSAGE))
    ELSE IF isSandwichAttackPattern(req)
    THEN createResponse(req, TRUE, Some(SANDWICH_MESSAGE))
    ELSE IF isJITLiquidityAttack(req)
    THEN createResponse(req, TRUE, Some(JIT_MESSAGE))
    ELSE IF isMultisigValidationBypass(functionSignature, req)
    THEN createResponse(req, TRUE, Some(MULTISIG_MESSAGE))
    ELSE IF isOracleManipulation(req)
    THEN createResponse(req, TRUE, Some(ORACLE_MESSAGE))
    ELSE IF isGeneralizedFrontrunning(req)
    THEN createResponse(req, TRUE, Some(FRONTRUNNING_MESSAGE))
    ELSE createResponse(req, FALSE, None)

detect(req) ==
    IF outOfScope(req) THEN createResponse(req, FALSE, None)
    ELSE
    LET functionSignature == SliceSelector(req.trace.input) IN
    IF isSandwichAttackPattern(req)
    THEN createResponse(req, TRUE, Some(SANDWICH_MESSAGE))
    ELSE IF isTimeBanditAttack(req)
    THEN createResponse(req, TRUE, Some(TIME_BANDIT_MESSAGE))
    ELSE IF isJITLiquidityAttack(req)
    THEN createResponse(req, TRUE, Some(JIT_MESSAGE))
    ELSE IF isMultisigValidationBypass(functionSignature, req)
    THEN createResponse(req, TRUE, Some(MULTISIG_MESSAGE))
    ELSE IF isOracleManipulation(req)
    THEN createResponse(req, TRUE, Some(ORACLE_MESSAGE))
    ELSE IF isGeneralizedFrontrunning(req)
    THEN createResponse(req, TRUE, Some(FRONTRUNNING_MESSAGE))
    ELSE createResponse(req, FALSE, None)

-----------------------------------------------------------------------------
(* Exceptions: reading a property of an undefined value raises a TypeError. *)
(* For each detector, the values it reads properties of along the path it   *)
(* takes, and whether one of them is undefined.                             *)

TypeError(x) == IsNone(x)

\* the detector without the test of blockTransactions at its head
isSandwichAttackPatternThrowsUnguarded(req) ==
    LET mempoolContext == mempoolContextOf(req) IN
    IF IsNone(mempoolContext) THEN FALSE
    ELSE TypeError(Val(mempoolContext).blockTransactions)

isSandwichAttackPatternThrows(req) ==
    LET mempoolContext == mempoolContextOf(req) IN
    IF IsNone(mempoolContext) \/ IsNone(Val(mempoolContext).blockTransactions)
    THEN FALSE
    ELSE
    \* transactions.length, transactions[0], transactions.findIndex
    \/ TypeError(Val(mempoolContext).blockTransactions)
    \* mempoolContext.priceImpact.before, read under if (mempoolContext.priceImpact)
    \/ /\ IsSome(Val(mempoolContext).priceImpact)
       /\ TypeError(Val(mempoolContext).priceImpact)

isTimeBanditAttackThrows(req) ==
    LET blockchainContext == blockchainContextOf(req) IN
    IF IsNone(blockchainContext) THEN FALSE
    \* blockchainContext.isReorg, blockchainContext.reorgDepth
    ELSE TypeError(blockchainContext)

isJITLiquidityAttackThrows(req) ==
    LET liquidityContext == liquidityContextOf(req) IN
    IF IsNone(liquidityContext) \/ IsNone(Val(liquidityContext).recentLiquidityEvents)
    THEN FALSE
    \* events.filter, liquidityContext.liquidityDuration
    ELSE TypeError(Val(liquidityContext).recentLiquidityEvents) \/ TypeError(liquidityContext)

isMultisigValidationBypassThrows(functionSignature, req) ==
    IF functionSignature # FUNCTION_SIGNATURES.MAKE_MOVE THEN FALSE
    ELSE
    LET calls        == IF IsSome(req.trace.calls) THEN req.trace.calls ELSE Some(<<>>)
        multisigInfo == multisigInfoOf(req)
    IN
    \* calls.length, calls.filter
    \/ TypeError(calls)
    \* multisigInfo.presentPlayers, read under if (multisigInfo)
    \/ /\ Len(Val(calls)) >= MULTISIG_MIN_CALLS
       /\ Len(SelectSeq(Val(calls), LAMBDA call : startsWith(call.input, FUNCTION_SIGNATURES.END_GAME))) > 0
       /\ IsSome(multisigInfo)
       /\ TypeError(multisigInfo)

isOracleManipulationThrows(req) ==
    LET oracleContext == oracleContextOf(req) IN
    IF IsNone(oracleContext) \/ IsNone(Val(oracleContext).recentOracleUpdates)
    THEN FALSE
    ELSE
    \* updates.length, updates[i]
    \/ TypeError(Val(oracleContext).recentOracleUpdates)
    \* volatilityAnalysis.normalVolatility, read under if (oracleContext.volatilityAnalysis)
    \/ /\ Len(Val(Val(oracleContext).recentOracleUpdates)) >= ORACLE_MIN_UPDATES
       /\ IsSome(Val(oracleContext).volatilityAnalysis)
       /\ TypeError(Val(oracleContext).volatilityAnalysis)

isGeneralizedFrontrunningThrows(req) ==
    LET mempoolContext == mempoolContextOf(req) IN
    IF IsNone(mempoolContext) THEN FALSE
    ELSE
    LET pendingTxs == IF IsSome(Val(mempoolContext).pendingTransactions)
                      THEN Val(mempoolContext).pendingTransactions
                      ELSE Some(<<>>)
        currentTx  == Val(mempoolContext).currentTransaction
        analysis   == Val(mempoolContext).similarityAnalysis
    IN
    \* pendingTxs.length
    \/ TypeError(pendingTxs)
    \/ /\ ~(IsNone(currentTx) \/ Len(Val(pendingTxs)) = 0)
       \* currentTx.input, currentTx.gasPrice, currentTx.from
       /\ \/ TypeError(currentTx)
          \* analysis.isExactCopy, read under if (mempoolContext.similarityAnalysis)
          \/ /\ ~pendingLoop(Val(pendingTxs), Val(currentTx), 0).returned
             /\ IsSome(analysis)
             /\ TypeError(analysis)

\* detect raises: some detector raises before an earlier one has matched
detectThrows(req) ==
    IF outOfScope(req) THEN FALSE
    ELSE
    LET functionSignature == SliceSelector(req.trace.input) IN
    IF isSandwichAttackPatternThrows(req) THEN TRUE
    ELSE IF isSandwichAttackPattern(req) THEN FALSE
    ELSE IF isTimeBanditAttackThrows(req) THEN TRUE
    ELSE IF isTimeBanditAttack(req) THEN FALSE
    ELSE IF isJITLiquidityAttackThrows(req) THEN TRUE
    ELSE IF isJITLiquidityAttack(req) THEN FALSE
    ELSE IF isMultisigValidationBypassThrows(functionSignature, req) THEN TRUE
    ELSE IF isMultisigValidationBypass(functionSignature, req) THEN FALSE
    ELSE IF isOracleManipulationThrows(req) THEN TRUE
    ELSE IF isOracleManipulation(req) THEN FALSE
    ELSE isGeneralizedFrontrunningThrows(req)

\* a detect that remembers the sender of every transaction it reports among
\* the known high-risk addresses
DetectRemembering ==
    /\ pc = "ready"
    /\ IF detectThrows(request)
       THEN response' = None /\ pc' = "error"
       ELSE response' = Some(detect(request)) /\ pc' = "done"
    /\ statics' =
          IF ~detectThrows(request) /\ detect(request).detectionInfo.detected
          THEN [statics EXCEPT !.KNOWN_MEV_ADDRESSES = @ \cup {toLowerCase(request.trace.from)}]
          ELSE statics
    /\ UNCHANGED <<request, log, hookVars>>

\* one call of DetectionService.detect on the request at hand: it returns a
\* response or raises
Detect ==
    /\ pc = "ready"
    /\ IF detectThrows(request)
       THEN response' = None /\ pc' = "error"
       ELSE response' = Some(detect(request)) /\ pc' = "done"
    /\ UNCHANGED <<request, statics, log, hookVars>>

Next == Detect

\* the call has returned and the service is handed its next request; the
\* request and response of the call that returned are kept in log
Receive(nextRequest) ==
    /\ pc = "done"
    /\ log' = Append(log, [request |-> request, response |-> Val(response)])
    /\ request' = nextRequest
    /\ response' = None
    /\ pc' = "ready"
    /\ UNCHANGED <<statics, hookVars>>

-----------------------------------------------------------------------------
(* Requests *)

MaxBlockTxs == 3

MaxReorgDepth == 4

MaxEvents == 3

MaxCalls == 3

MaxUpdates == 3

MaxPending == 3

MaxPlayers == 2

SeqsUpTo(S, n) == UNION {[1..k -> S] : k \in 0..n}

TargetHash == "0x3f9a1c5d2b7e"

OtherHash == "0xa1b2c3d4e5f6a7b8c9d0e1f2a3b4c5d6e7f8a9b0"

makeMoveInput == MAKE_MOVE \o <<"00", "01", "00", "02">>

strategicMoveInput == MAKE_MOVE \o <<"00", "05", "00", "02">>

createGameInput == CREATE_GAME \o <<"00", "00">>

joinGameInput == JOIN_GAME \o <<"00", "01">>

endGameInput == END_GAME \o <<"00", "01">>

emptyInput == <<"0x">>

NoContext ==
    [mempoolContext |-> None, blockchainContext |-> None, liquidityContext |-> None,
     oracleContext |-> None, multisigInfo |-> None]

Trace(from, to, input, calls) ==
    [from |-> from, to |-> to, input |-> input, calls |-> calls]

Request(protocolAddress, trace, additionalData) ==
    [chainId |-> 17000, hash |-> TargetHash, protocolName |-> "RockPaperScissors",
     protocolAddress |-> protocolAddress, trace |-> trace,
     additionalData |-> additionalData]

Call(from, input) == [from |-> from, to |-> contractAddress, input |-> input]

Transaction(hash, from, gasPrice, input) ==
    [hash |-> hash, from |-> from, to |-> contractAddress, gasPrice |-> gasPrice,
     input |-> input]

Mempool(blockTxs, pendingTxs, currentTx, priceImpact, analysis) ==
    [blockTransactions |-> blockTxs, pendingTransactions |-> pendingTxs,
     currentTransaction |-> currentTx, priceImpact |-> priceImpact,
     similarityAnalysis |-> analysis]

\* recipient and declared protocol address: in scope (two spellings), out of
\* scope (another recipient, another protocol, no protocol address)
ScopePairs ==
    {<<contractAddress, Some(contractAddress)>>,
     <<contractLower, Some(contractAddress)>>,
     <<contractAddress, Some(contractLower)>>,
     <<liquidityPoolAddress, Some(contractAddress)>>,
     <<contractAddress, Some(liquidityPoolAddress)>>,
     <<contractAddress, None>>}

InScopePair == <<contractAddress, Some(contractLower)>>

OutOfScopePair == <<liquidityPoolAddress, Some(contractAddress)>>

-----------------------------------------------------------------------------
(* Requests of the pipeline: every view absent, matching or not matching *)

sandwichBlock ==
    <<Transaction(OtherHash, sandwichBotAddress, <<"3", "5">>, <<"0x", "ab", "cd", "ef", "01">>),
      Transaction(TargetHash, player1Address, <<"3", "0">>, createGameInput),
      Transaction(OtherHash, sandwichBotAddress, <<"3", "5">>, <<"0x", "fe", "dc", "ba", "98">>)>>

benignBlock ==
    <<Transaction(OtherHash, player2Address, <<"3", "0">>, joinGameInput),
      Transaction(TargetHash, player1Address, <<"3", "0">>, createGameInput),
      Transaction(OtherHash, player2Address, <<"3", "0">>, makeMoveInput)>>

highPriceImpact == [before |-> <<"2", ".", "5", "%">>, after |-> <<"2", ".", "7", "%">>]

copiedPending == <<Transaction(OtherHash, player2Address, <<"2", "5">>, strategicMoveInput)>>

copyingCurrent == Transaction(TargetHash, mevBotAddress, <<"3", "5">>, strategicMoveInput)

exactCopyAnalysis == [isExactCopy |-> TRUE, inputSimilarity |-> "100%"]

PipelineMempools ==
    {None,
     Some(Mempool(Some(sandwichBlock), None, None, Some(highPriceImpact), None)),
     Some(Mempool(None, Some(copiedPending), Some(copyingCurrent), None,
                  Some(exactCopyAnalysis))),
     Some(Mempool(Some(sandwichBlock), Some(copiedPending), Some(copyingCurrent),
                  None, None)),
     Some(Mempool(Some(benignBlock), None, None, None, None))}

PipelineBlockchains ==
    {None,
     Some([isReorg |-> Some(TRUE), reorgDepth |-> Some(3)]),
     Some([isReorg |-> Some(TRUE), reorgDepth |-> Some(2)])}

LiquidityEvent(type, address, amount) ==
    [type |-> type, address |-> address, amount |-> amount]

jitEvents ==
    <<LiquidityEvent("add", mevBotAddress, <<"1", "0", "0">>),
      LiquidityEvent("playerTransaction", player1Address, <<"1", "0">>),
      LiquidityEvent("remove", mevBotAddress, <<"1", "0", "0", ".", "2">>)>>

PipelineLiquidities ==
    {None,
     Some([recentLiquidityEvents |-> Some(jitEvents), liquidityDuration |-> Some(10)]),
     Some([recentLiquidityEvents |-> Some(jitEvents), liquidityDuration |-> Some(60)])}

OracleUpdate(oldValue, newValue, updater) ==
    [oldValue |-> oldValue, newValue |-> newValue, updater |-> updater]

manipulatedUpdates ==
    <<OracleUpdate(<<"1", "0", "5">>, <<"9", "2">>, mevBotAddress),
      OracleUpdate(<<"9", "2">>, <<"1", "0", "6">>, mevBotAddress)>>

calmUpdates ==
    <<OracleUpdate(<<"1", "0", "5">>, <<"1", "0", "6">>, player1Address),
      OracleUpdate(<<"1", "0", "6">>, <<"1", "0", "5">>, player1Address)>>

attackVolatilityAnalysis ==
    [normalVolatility |-> <<"1", ".", "2", "%">>,
     attackVolatility |-> <<"1", "2", ".", "4", "%">>,
     confidenceScore  |-> Num(96, 100)]

PipelineOracles ==
    {None,
     Some([recentOracleUpdates |-> Some(manipulatedUpdates),
           volatilityAnalysis  |-> Some(attackVolatilityAnalysis)]),
     Some([recentOracleUpdates |-> Some(calmUpdates), volatilityAnalysis |-> None])}

PipelineMultisigs ==
    {None,
     Some([presentPlayers |-> 1, requiredPlayers |-> 2]),
     Some([presentPlayers |-> 2, requiredPlayers |-> 2])}

bypassCalls ==
    <<Call(player1Address, makeMoveInput), Call(player1Address, endGameInput)>>

PipelineContexts ==
    {None} \cup
    {Some([mempoolContext |-> m, blockchainContext |-> b, liquidityContext |-> l,
           oracleContext |-> o, multisigInfo |-> ms]) :
        m \in PipelineMempools, b \in PipelineBlockchains, l \in PipelineLiquidities,
        o \in PipelineOracles, ms \in PipelineMultisigs}

PipelineRequests ==
    {Request(sp[2], Trace(player1Address, sp[1], input, calls), ad) :
        sp \in ScopePairs, input \in {makeMoveInput, createGameInput},
        calls \in {None, Some(bypassCalls)}, ad \in PipelineContexts}

\* the front end before any use: no wallet connected, no SDK handle, no call
\* of protectedWrite in progress, nothing asked of the outside
HookIdle ==
    /\ vennClient = None
    /\ walletAddress = None
    /\ wpc = "idle"
    /\ params = None
    /\ transaction = None
    /\ approvedTx = None
    /\ approvals = <<>>
    /\ writes = <<>>
    /\ toasts = <<>>
    /\ vennErrors = <<>>

\* the state before detect is first called: no response yet, the static
\* tables as loaded, nothing evaluated so far
Fresh ==
    /\ response = None
    /\ pc = "ready"
    /\ statics = StaticTables
    /\ log = <<>>
    /\ HookIdle

Init ==
    /\ request \in PipelineRequests
    /\ Fresh

Spec == Init /\ [][Next]_vars

-----------------------------------------------------------------------------
(* Vocabulary of the properties, stated without the code's conversions *)

\* the spellings of one account
Accounts ==
    {{sandwichBotAddress, sandwichBotLower}, {mevBotAddress, mevBotLower},
     {player1Address, player1Lower}, {player2Address, player2Lower},
     {contractAddress, contractLower}, {liquidityPoolAddress, liquidityPoolLower}}

\* a and b are the same address up to letter case
SameAddress(a, b) == a = b \/ \E acc \in Accounts : a \in acc /\ b \in acc

\* a is, up to letter case, one of the known high-risk addresses
HighRisk(a) ==
    \E k \in {sandwichBotAddress, mevBotAddress} : SameAddress(a, k)

\* trace.to equals protocolAddress, compared case-insensitively
InScope(req) ==
    IsSome(req.protocolAddress) /\ SameAddress(req.trace.to, Val(req.protocolAddress))

Verdict == Val(response).detectionInfo

\* the fixed labels, in the order of the pipeline
Labels ==
    <<SANDWICH_MESSAGE, TIME_BANDIT_MESSAGE, JIT_MESSAGE, MULTISIG_MESSAGE,
      ORACLE_MESSAGE, FRONTRUNNING_MESSAGE>>

\* detector number i of the pipeline matches req
Matches(i, req) ==
    CASE i = 1 -> isSandwichAttackPattern(req)
      [] i = 2 -> isTimeBanditAttack(req)
      [] i = 3 -> isJITLiquidityAttack(req)
      [] i = 4 -> isMultisigValidationBypass(SliceSelector(req.trace.input), req)
      [] i = 5 -> isOracleManipulation(req)
      [] i = 6 -> isGeneralizedFrontrunning(req)

Matching(req) == {i \in 1..6 : Matches(i, req)}

Earliest(S) == CHOOSE i \in S : \A j \in S : i <= j

-----------------------------------------------------------------------------
(* C1: a request whose recipient is not the protocol address (compared      *)
(* without regard to letter case, a missing protocol address included) gets *)
(* detected = false and no message, whatever else it carries.               *)
ScopeFilterDominates ==
    (pc = "done" /\ ~InScope(request)) =>
        Verdict = [detected |-> FALSE, message |-> None]

\* an out-of-scope request on which a detector would have matched
ScopeFilterWitness ==
    /\ pc = "done"
    /\ ~InScope(request)
    /\ Matching(request) # {}
    /\ Verdict.detected = FALSE

(* C2: detected = false comes with no message; detected = true comes with a *)
(* non-empty message that is one of the six fixed labels, which are         *)
(* pairwise distinct.                                                       *)
VerdictInvariant ==
    pc = "done" =>
        /\ Verdict.detected \in BOOLEAN
        /\ Verdict.detected = FALSE => IsNone(Verdict.message)
        /\ Verdict.detected = TRUE =>
              /\ IsSome(Verdict.message)
              /\ Val(Verdict.message) # ""
              /\ \E i \in 1..6 : Val(Verdict.message) = Labels[i]
        /\ \A i, j \in 1..6 : Labels[i] = Labels[j] => i = j

VerdictWitness ==
    /\ pc = "done"
    /\ Verdict.detected = TRUE
    /\ Verdict.message = Some(JIT_MESSAGE)

(* C3: for an in-scope request the message is the label of the earliest     *)
(* matching detector in the order sandwich, time-bandit, JIT, multisig,     *)
(* oracle, generalized front-running; with no matching detector the verdict *)
(* is negative.                                                             *)
FirstMatchWins ==
    (pc = "done" /\ InScope(request)) =>
        IF Matching(request) = {}
        THEN Verdict.detected = FALSE
        ELSE /\ Verdict.detected = TRUE
             /\ Verdict.message = Some(Labels[Earliest(Matching(request))])

\* a request that is both a sandwich and a deep reorg is reported as a sandwich
FirstMatchWitness ==
    /\ pc = "done"
    /\ InScope(request)
    /\ {1, 2} \subseteq Matching(request)
    /\ Verdict.message = Some(SANDWICH_MESSAGE)

\* exactly one detector matches, and it is not the first of the pipeline
SingleMatchWitness ==
    /\ pc = "done"
    /\ InScope(request)
    /\ Matching(request) = {5}
    /\ Verdict.message = Some(ORACLE_MESSAGE)

-----------------------------------------------------------------------------
(* Requests for the time-bandit detector: every combination of isReorg and  *)
(* reorgDepth, absent or present, with or without a sandwich ahead of it    *)

TimeBanditContexts ==
    Opt({[isReorg |-> r, reorgDepth |-> d] :
            r \in Opt(BOOLEAN), d \in Opt(0..MaxReorgDepth)})

TimeBanditRequests ==
    {Request(sp[2], Trace(player2Address, sp[1], input, None), ad) :
        sp \in ScopePairs, input \in {makeMoveInput, createGameInput},
        ad \in {None} \cup
              {Some([NoContext EXCEPT !.blockchainContext = b, !.mempoolContext = m]) :
                  b \in TimeBanditContexts,
                  m \in {None, Some(Mempool(Some(sandwichBlock), None, None, None, None))}}}

InitTimeBandit ==
    /\ request \in TimeBanditRequests
    /\ Fresh

SpecTimeBandit == InitTimeBandit /\ [][Next]_vars

\* the blockchain context reports a reorg of a defined depth of at least 3
DeepReorg(req) ==
    /\ IsSome(blockchainContextOf(req))
    /\ Val(blockchainContextOf(req)).isReorg = Some(TRUE)
    /\ IsSome(Val(blockchainContextOf(req)).reorgDepth)
    /\ Val(Val(blockchainContextOf(req)).reorgDepth) >= 3

(* C4: the time-bandit detector matches exactly when a blockchain context   *)
(* is supplied with isReorg = true and a defined reorgDepth above 2: depths *)
(* 0, 1 and 2 do not match, 3 matches, and without isReorg = true or        *)
(* without a depth it never matches.  Where no sandwich is detected first,  *)
(* the verdict of an in-scope request carries the time-bandit label exactly *)
(* in that case.                                                            *)
TimeBanditThreshold ==
    /\ isTimeBanditAttack(request) <=> DeepReorg(request)
    /\ (pc = "done" /\ InScope(request) /\ ~isSandwichAttackPattern(request)) =>
          (Verdict.message = Some(TIME_BANDIT_MESSAGE) <=> DeepReorg(request))

\* isReorg = true with depth 3 is reported
TimeBanditWitness ==
    /\ pc = "done"
    /\ InScope(request)
    /\ IsSome(blockchainContextOf(request))
    /\ Val(blockchainContextOf(request)).isReorg = Some(TRUE)
    /\ Val(blockchainContextOf(request)).reorgDepth = Some(3)
    /\ Verdict.message = Some(TIME_BANDIT_MESSAGE)

\* isReorg = true with depth 2 is not
TimeBanditBoundaryWitness ==
    /\ pc = "done"
    /\ InScope(request)
    /\ IsSome(blockchainContextOf(request))
    /\ Val(blockchainContextOf(request)).isReorg = Some(TRUE)
    /\ Val(blockchainContextOf(request)).reorgDepth = Some(2)
    /\ Verdict.detected = FALSE

-----------------------------------------------------------------------------
(* Requests for the sandwich detector: every block of up to MaxBlockTxs     *)
(* transactions, with and without price-impact figures                      *)

GasPrices == {<<"9">>, <<"1", "0">>}

\* the amount a gas price string stands for
Wei(gasPrice) ==
    CASE gasPrice = <<"9">>      -> 9
      [] gasPrice = <<"1", "0">> -> 10
      [] gasPrice = <<"2", "5">> -> 25
      [] gasPrice = <<"3", "0">> -> 30
      [] gasPrice = <<"3", "5">> -> 35

SandwichTxs ==
    {Transaction(h, f, g, createGameInput) :
        h \in {TargetHash, OtherHash},
        f \in {sandwichBotAddress, sandwichBotLower, mevBotAddress, player1Address},
        g \in GasPrices}

lowPriceImpact == [before |-> <<"0", ".", "5", "%">>, after |-> <<"0", ".", "5", "%">>]

SandwichContexts ==
    {None, Some(NoContext)} \cup
    {Some([NoContext EXCEPT !.mempoolContext = Some(Mempool(txs, None, None, pi, None))]) :
        txs \in Opt(SeqsUpTo(SandwichTxs, MaxBlockTxs)),
        pi \in {None, Some(lowPriceImpact)}}

SandwichRequests ==
    {Request(InScopePair[2], Trace(player1Address, InScopePair[1], createGameInput, None), ad) :
        ad \in SandwichContexts}

InitSandwich ==
    /\ request \in SandwichRequests
    /\ Fresh

SpecSandwich == InitSandwich /\ [][Next]_vars

\* the block transactions of req, or none
BlockOf(req) ==
    IF IsSome(mempoolContextOf(req)) /\ IsSome(Val(mempoolContextOf(req)).blockTransactions)
    THEN Val(Val(mempoolContextOf(req)).blockTransactions)
    ELSE <<>>

NoPriceImpact(req) ==
    IsSome(mempoolContextOf(req)) => IsNone(Val(mempoolContextOf(req)).priceImpact)

\* the structure of a sandwich around the requested transaction
SandwichStructure(req) ==
    LET txs == BlockOf(req)
        n   == Len(txs)
    IN  /\ n >= 3
        /\ \E p \in 2..(n - 1) :
              /\ txs[p].hash = req.hash
              /\ \A q \in 1..(p - 1) : txs[q].hash # req.hash
              /\ SameAddress(txs[1].from, txs[n].from)
              /\ HighRisk(txs[1].from)
              /\ Wei(txs[1].gasPrice) > Wei(txs[p].gasPrice)
              /\ Wei(txs[n].gasPrice) > Wei(txs[p].gasPrice)

\* the requested transaction is missing from the block, or is found first
\* at its first or at its last position
TargetAtEdge(req) ==
    LET txs == BlockOf(req)
        n   == Len(txs)
    IN  \/ \A q \in 1..n : txs[q].hash # req.hash
        \/ (n >= 1 /\ txs[1].hash = req.hash)
        \/ (n >= 1 /\ txs[n].hash = req.hash /\ \A q \in 1..(n - 1) : txs[q].hash # req.hash)

(* C6: with no price-impact figures the sandwich detector matches exactly   *)
(* when the block has at least 3 transactions, the requested hash is found  *)
(* at an inner position, the first and the last transaction have the same   *)
(* high-risk sender (letter case aside) and both pay a strictly higher gas  *)
(* price than the target; the verdict of an in-scope request then carries   *)
(* the sandwich label.  A target that is missing or found at the first or   *)
(* last position never matches.                                             *)
SandwichDetection ==
    /\ NoPriceImpact(request) =>
          /\ isSandwichAttackPattern(request) <=> SandwichStructure(request)
          /\ (pc = "done" /\ InScope(request)) =>
                (Verdict.message = Some(SANDWICH_MESSAGE) <=> SandwichStructure(request))
    /\ TargetAtEdge(request) => ~isSandwichAttackPattern(request)

\* a sandwich whose two outer transactions spell the sender differently
SandwichWitness ==
    /\ pc = "done"
    /\ InScope(request)
    /\ NoPriceImpact(request)
    /\ SandwichStructure(request)
    /\ BlockOf(request)[1].from # BlockOf(request)[Len(BlockOf(request))].from
    /\ Verdict.message = Some(SANDWICH_MESSAGE)

-----------------------------------------------------------------------------
(* Requests for the JIT liquidity detector: every sequence of up to         *)
(* MaxEvents events, with the duration absent, 0, and around the threshold  *)

Amounts == {<<"1", "0", "0">>, <<"1", "0", "0", ".", "2">>}

\* the amount an amount string stands for, in tenths
Tenths(amount) ==
    CASE amount = <<"1", "0", "0">>           -> 1000
      [] amount = <<"1", "0", "0", ".", "2">> -> 1002
      [] amount = <<"1", "0">>                -> 100

LiquidityEvents ==
    {LiquidityEvent(t, a, m) :
        t \in {"add", "remove", "playerTransaction"},
        a \in {mevBotAddress, player1Address},
        m \in Amounts}

Durations == {None, Some(0), Some(1), Some(29), Some(30), Some(31)}

JITContexts ==
    {None, Some(NoContext)} \cup
    {Some([NoContext EXCEPT !.liquidityContext =
              Some([recentLiquidityEvents |-> ev, liquidityDuration |-> d])]) :
        ev \in Opt(SeqsUpTo(LiquidityEvents, MaxEvents)), d \in Durations}

JITRequests ==
    {Request(InScopePair[2], Trace(player1Address, InScopePair[1], createGameInput, None), ad) :
        ad \in JITContexts}

InitJIT ==
    /\ request \in JITRequests
    /\ Fresh

SpecJIT == InitJIT /\ [][Next]_vars

EventsOf(req) ==
    IF IsSome(liquidityContextOf(req))
       /\ IsSome(Val(liquidityContextOf(req)).recentLiquidityEvents)
    THEN Val(Val(liquidityContextOf(req)).recentLiquidityEvents)
    ELSE <<>>

DurationOf(req) ==
    IF IsSome(liquidityContextOf(req))
    THEN Val(liquidityContextOf(req)).liquidityDuration
    ELSE None

HasKind(req, kind) == \E i \in 1..Len(EventsOf(req)) : EventsOf(req)[i].type = kind

\* the first event of the kind
FirstOfKind(req, kind) ==
    LET ev == EventsOf(req)
        i  == CHOOSE k \in 1..Len(ev) :
                  ev[k].type = kind /\ \A j \in 1..(k - 1) : ev[j].type # kind
    IN  ev[i]

HasAllKinds(req) ==
    HasKind(req, "add") /\ HasKind(req, "remove") /\ HasKind(req, "playerTransaction")

\* the provider is high-risk, or took out more than it put in
ProviderSuspicious(req) ==
    \/ HighRisk(FirstOfKind(req, "add").address)
    \/ Tenths(FirstOfKind(req, "remove").amount) > Tenths(FirstOfKind(req, "add").amount)

\* detect has run on an in-scope request and neither the sandwich nor the
\* time-bandit detector matched ahead of the JIT detector
ReachedJIT ==
    pc = "done" /\ InScope(request) /\ Matching(request) \cap {1, 2} = {}

JITAnswer(matched) ==
    /\ isJITLiquidityAttack(request) = matched
    /\ (Verdict.message = Some(JIT_MESSAGE)) = matched

(* C7: with an add, a remove and a playerTransaction event and a supplied   *)
(* duration d, 0 <= d < 30, the JIT detector matches if the provider (the   *)
(* address of the first add) is high-risk or the removed amount exceeds the *)
(* added amount; it does not match when d >= 30, when no duration is        *)
(* supplied, or when one of the three kinds is missing.                     *)
JITDetection ==
    ReachedJIT =>
        /\ ( /\ HasAllKinds(request)
             /\ IsSome(DurationOf(request))
             /\ 0 <= Val(DurationOf(request))
             /\ Val(DurationOf(request)) < 30
             /\ ProviderSuspicious(request) )
           => JITAnswer(TRUE)
        /\ ( \/ ~HasAllKinds(request)
             \/ IsNone(DurationOf(request))
             \/ Val(DurationOf(request)) >= 30 )
           => JITAnswer(FALSE)

\* the same statement for the durations 1 <= d < 30 only: the duration 0 is
\* the one case in which the detector departs from JITDetection
JITDetectionPositiveDuration ==
    ReachedJIT =>
        /\ ( /\ HasAllKinds(request)
             /\ IsSome(DurationOf(request))
             /\ 1 <= Val(DurationOf(request))
             /\ Val(DurationOf(request)) < 30
             /\ ProviderSuspicious(request) )
           => JITAnswer(TRUE)
        /\ ( \/ ~HasAllKinds(request)
             \/ IsNone(DurationOf(request))
             \/ Val(DurationOf(request)) >= 30 )
           => JITAnswer(FALSE)

-----------------------------------------------------------------------------
(* Requests for the multisig-bypass detector: every list of up to MaxCalls  *)
(* nested calls under every selector, with and without multisigInfo         *)

NestedCalls ==
    {Call(player1Address, makeMoveInput), Call(player1Address, endGameInput),
     Call(player1Address, emptyInput)}

MultisigInfos ==
    Opt({[presentPlayers |-> p, requiredPlayers |-> r] :
            p \in 0..MaxPlayers, r \in 0..MaxPlayers})

MultisigRequests ==
    {Request(InScopePair[2], Trace(player1Address, InScopePair[1], input, calls), ad) :
        input \in {makeMoveInput, createGameInput, endGameInput, emptyInput},
        calls \in Opt(SeqsUpTo(NestedCalls, MaxCalls)),
        ad \in {None} \cup {Some([NoContext EXCEPT !.multisigInfo = ms]) : ms \in MultisigInfos}}

InitMultisig ==
    /\ request \in MultisigRequests
    /\ Fresh

SpecMultisig == InitMultisig /\ [][Next]_vars

\* the call data begins with the four bytes of the selector
Invokes(input, selector) ==
    Len(input) >= 5 /\ \A i \in 1..5 : input[i] = selector[i]

CallsOf(req) == IF IsSome(req.trace.calls) THEN Val(req.trace.calls) ELSE <<>>

HasEndGameCall(req) ==
    \E i \in 1..Len(CallsOf(req)) : Invokes(CallsOf(req)[i].input, END_GAME)

\* no multisigInfo, or fewer players present than required
SignersMissing(req) ==
    \/ IsNone(multisigInfoOf(req))
    \/ Val(multisigInfoOf(req)).presentPlayers < Val(multisigInfoOf(req)).requiredPlayers

\* detect has run on an in-scope request and no detector ahead of the
\* multisig-bypass detector matched
ReachedMultisig ==
    pc = "done" /\ InScope(request) /\ Matching(request) \cap {1, 2, 3} = {}

MultisigAnswer(matched) ==
    /\ isMultisigValidationBypass(SliceSelector(request.trace.input), request) = matched
    /\ (Verdict.message = Some(MULTISIG_MESSAGE)) = matched

(* C8: under the makeMove selector, with a nested call that invokes         *)
(* _endGame, the multisig-bypass detector matches if multisigInfo is absent *)
(* and, if it is present, exactly when presentPlayers < requiredPlayers;    *)
(* under any other selector it never matches.                               *)
MultisigFailsClosed ==
    ReachedMultisig =>
        /\ (Invokes(request.trace.input, MAKE_MOVE) /\ HasEndGameCall(request))
              => MultisigAnswer(SignersMissing(request))
        /\ ~Invokes(request.trace.input, MAKE_MOVE) => MultisigAnswer(FALSE)

\* the same statement for lists of at least two nested calls: a list of one
\* call is the one case in which the detector departs from MultisigFailsClosed
MultisigFailsClosedTwoCalls ==
    ReachedMultisig =>
        /\ ( /\ Invokes(request.trace.input, MAKE_MOVE)
             /\ HasEndGameCall(request)
             /\ Len(CallsOf(request)) >= 2 )
              => MultisigAnswer(SignersMissing(request))
        /\ ~Invokes(request.trace.input, MAKE_MOVE) => MultisigAnswer(FALSE)

-----------------------------------------------------------------------------
(* Requests for the oracle detector: every list of up to MaxUpdates         *)
(* updates, with and without a volatility summary                           *)

OracleUpdates ==
    {OracleUpdate(old, new, u) :
        old \in {<<"1", "0", "0">>, <<"0">>},
        new \in {<<"1", "0", "0">>, <<"1", "2", "0">>},
        u \in {mevBotAddress, player1Address}}

\* the percentage a volatility string stands for, in tenths of a percent
PercentTenths(v) ==
    CASE v = <<"1", ".", "2", "%">>      -> 12
      [] v = <<"4", "%">>                -> 40
      [] v = <<"3", ".", "6", "%">>      -> 36
      [] v = <<"1", "2", ".", "4", "%">> -> 124

VolatilityAnalyses ==
    Opt({[normalVolatility |-> n, attackVolatility |-> a, confidenceScore |-> c] :
            n \in {<<"1", ".", "2", "%">>, <<"4", "%">>},
            a \in {<<"3", ".", "6", "%">>, <<"1", "2", ".", "4", "%">>},
            c \in {Num(8, 10), Num(96, 100)}})

OracleContexts ==
    {None, Some(NoContext)} \cup
    {Some([NoContext EXCEPT !.oracleContext =
              Some([recentOracleUpdates |-> up, volatilityAnalysis |-> va])]) :
        up \in Opt(SeqsUpTo(OracleUpdates, MaxUpdates)), va \in VolatilityAnalyses}

OracleRequests ==
    {Request(InScopePair[2], Trace(player1Address, InScopePair[1], makeMoveInput, None), ad) :
        ad \in OracleContexts}

InitOracle ==
    /\ request \in OracleRequests
    /\ Fresh

SpecOracle == InitOracle /\ [][Next]_vars

UpdatesOf(req) ==
    IF IsSome(oracleContextOf(req)) /\ IsSome(Val(oracleContextOf(req)).recentOracleUpdates)
    THEN Val(Val(oracleContextOf(req)).recentOracleUpdates)
    ELSE <<>>

VolatilityOf(req) ==
    IF IsSome(oracleContextOf(req))
    THEN Val(oracleContextOf(req)).volatilityAnalysis
    ELSE None

\* a volatility summary with observed volatility above 3 times the normal
\* one and a confidence above 0.8
VolatilityAlarm(req) ==
    /\ IsSome(VolatilityOf(req))
    /\ PercentTenths(Val(VolatilityOf(req)).attackVolatility)
          > 3 * PercentTenths(Val(VolatilityOf(req)).normalVolatility)
    /\ 10 * Val(VolatilityOf(req)).confidenceScore.num
          > 8 * Val(VolatilityOf(req)).confidenceScore.den

\* detect has run on an in-scope request and no detector ahead of the
\* oracle detector matched
ReachedOracle ==
    pc = "done" /\ InScope(request) /\ Matching(request) \cap {1, 2, 3, 4} = {}

OracleAnswer(matched) ==
    /\ isOracleManipulation(request) = matched
    /\ (Verdict.message = Some(ORACLE_MESSAGE)) = matched

(* C9: with at least two oracle updates and a volatility summary whose      *)
(* observed volatility is above 3 times the normal one and whose confidence *)
(* is above 0.8, the oracle detector matches whatever the updates hold and  *)
(* whoever made them; with fewer than two updates it never matches.         *)
OracleVolatilityPath ==
    ReachedOracle =>
        /\ (Len(UpdatesOf(request)) >= 2 /\ VolatilityAlarm(request)) => OracleAnswer(TRUE)
        /\ Len(UpdatesOf(request)) < 2 => OracleAnswer(FALSE)

\* reported on the volatility summary alone: no update changes the value and
\* no updater is high-risk
OracleVolatilityWitness ==
    /\ pc = "done"
    /\ InScope(request)
    /\ Len(UpdatesOf(request)) = 2
    /\ \A i \in 1..2 :
          /\ UpdatesOf(request)[i].oldValue = UpdatesOf(request)[i].newValue
          /\ ~HighRisk(UpdatesOf(request)[i].updater)
    /\ VolatilityAlarm(request)
    /\ Verdict.message = Some(ORACLE_MESSAGE)

-----------------------------------------------------------------------------
(* Requests for the generalized front-running detector: every list of up to *)
(* MaxPending pending transactions, with and without a current transaction  *)
(* and a similarity analysis                                                *)

PendingTxs ==
    {Transaction(OtherHash, f, g, i) :
        f \in {mevBotLower, player2Address},
        g \in GasPrices,
        i \in {strategicMoveInput, makeMoveInput}}

CurrentTxs ==
    Opt({Transaction(TargetHash, f, <<"1", "0">>, strategicMoveInput) :
            f \in {mevBotAddress, player1Address}})

SimilarityAnalyses ==
    Opt({[isExactCopy |-> TRUE, inputSimilarity |-> "100%"],
         [isExactCopy |-> TRUE, inputSimilarity |-> "99%"],
         [isExactCopy |-> FALSE, inputSimilarity |-> "100%"]})

FrontrunContexts ==
    {None, Some(NoContext)} \cup
    {Some([NoContext EXCEPT !.mempoolContext = Some(Mempool(None, pd, cur, None, sim))]) :
        pd \in Opt(SeqsUpTo(PendingTxs, MaxPending)), cur \in CurrentTxs,
        sim \in SimilarityAnalyses}

FrontrunRequests ==
    {Request(InScopePair[2], Trace(mevBotAddress, InScopePair[1], strategicMoveInput, None), ad) :
        ad \in FrontrunContexts}

InitFrontrun ==
    /\ request \in FrontrunRequests
    /\ Fresh

SpecFrontrun == InitFrontrun /\ [][Next]_vars

PendingOf(req) ==
    IF IsSome(mempoolContextOf(req)) /\ IsSome(Val(mempoolContextOf(req)).pendingTransactions)
    THEN Val(Val(mempoolContextOf(req)).pendingTransactions)
    ELSE <<>>

CurrentOf(req) ==
    IF IsSome(mempoolContextOf(req))
    THEN Val(mempoolContextOf(req)).currentTransaction
    ELSE None

\* pending transaction i has the input of the current transaction, a
\* strictly lower gas price and another sender
CopiedBy(req, i) ==
    LET pendingTx == PendingOf(req)[i]
        currentTx == Val(CurrentOf(req))
    IN  /\ pendingTx.input = currentTx.input
        /\ Wei(pendingTx.gasPrice) < Wei(currentTx.gasPrice)
        /\ ~SameAddress(pendingTx.from, currentTx.from)

\* detect has run on an in-scope request and no detector ahead of the
\* generalized front-running detector matched
ReachedFrontrun ==
    pc = "done" /\ InScope(request) /\ Matching(request) \cap {1, 2, 3, 4, 5} = {}

FrontrunAnswer(matched) ==
    /\ isGeneralizedFrontrunning(request) = matched
    /\ (Verdict.message = Some(FRONTRUNNING_MESSAGE)) = matched

(* C10: with a current transaction from a high-risk sender and a pending    *)
(* list in which some transaction, at any position and after any others,    *)
(* has the same input, a strictly lower gas price and another sender, the   *)
(* generalized front-running detector matches.                              *)
FrontrunCopyTrade ==
    ( /\ ReachedFrontrun
      /\ IsSome(CurrentOf(request))
      /\ Len(PendingOf(request)) > 0
      /\ \E i \in 1..Len(PendingOf(request)) : CopiedBy(request, i)
      /\ HighRisk(Val(CurrentOf(request)).from) )
    => FrontrunAnswer(TRUE)

\* the copied transaction is the last of three pending ones, neither of the
\* two before it is copied, and no similarity analysis is supplied
FrontrunCopyTradeWitness ==
    /\ pc = "done"
    /\ InScope(request)
    /\ IsSome(CurrentOf(request))
    /\ Len(PendingOf(request)) = 3
    /\ ~CopiedBy(request, 1)
    /\ ~CopiedBy(request, 2)
    /\ CopiedBy(request, 3)
    /\ IsNone(Val(mempoolContextOf(request)).similarityAnalysis)
    /\ Verdict.message = Some(FRONTRUNNING_MESSAGE)

-----------------------------------------------------------------------------
(* Requests that supply no view a detector reads: additionalData absent,    *)
(* empty, or holding only other keys (transactionContext, gameState,        *)
(* gasPrice, pendingTransactions, timingData, gameCreationHistory,          *)
(* suspiciousPattern), under every selector and every list of nested calls  *)

\* additionalData whose five views are absent and that holds the given keys
OtherKeys(tc, gs, gp, pt, td, gh, sp) ==
    [mempoolContext |-> None, blockchainContext |-> None, liquidityContext |-> None,
     oracleContext |-> None, multisigInfo |-> None,
     transactionContext |-> tc, gameState |-> gs, gasPrice |-> gp,
     pendingTransactions |-> pt, timingData |-> td, gameCreationHistory |-> gh,
     suspiciousPattern |-> sp]

normalTransactionContext ==
    [gasPricePercentile |-> 50, blockPosition |-> 45, timeInMempool |-> 12,
     isContract |-> FALSE, isKnownPlayer |-> TRUE]

GameState(players, roundsPlayed, scores) ==
    [gameId |-> 1, players |-> players, roundsPlayed |-> roundsPlayed,
     scores |-> scores, isActive |-> TRUE]

GameStates ==
    {GameState(pl, rs[1], rs[2]) :
        pl \in {None, Some(<<player1Address, player2Address>>)},
        rs \in {<<None, None>>, <<Some(0), Some(<<0, 0>>)>>, <<Some(1), Some(<<1, 0>>)>>}}

PendingMoves ==
    {<<>>,
     <<[from |-> player1Address, to |-> contractAddress, input |-> makeMoveInput,
        gasPrice |-> "20000000000"]>>}

TimingDatas == {[submissionTimeDelta |-> Num(5, 10)], [submissionTimeDelta |-> Num(2, 1)]}

\* six games of the same small stake created five seconds apart
smallStakeHistory ==
    [i \in 1..6 |-> [gameId |-> 119 + i, stake |-> "100000000000000",
                     timestamp |-> 5000 * i - 35000]]

GameContexts ==
    {None, Some(NoContext)}
    \cup {Some(OtherKeys(tc, gs, None, None, None, None, None)) :
             tc \in Opt({normalTransactionContext}), gs \in Opt(GameStates)}
    \cup {Some(OtherKeys(None, None, gp, pt, td, None, None)) :
             gp \in Opt({"50000000000", "20000000000"}), pt \in Opt(PendingMoves),
             td \in Opt(TimingDatas)}
    \cup {Some(OtherKeys(None, None, None, None, None, gh, sp)) :
             gh \in Opt({smallStakeHistory}), sp \in Opt({"rapid small-stake game creation"})}

\* a context that does supply a view, next to keys no detector reads
reorgBesideGameState ==
    [OtherKeys(None, Some(GameState(None, None, None)), None, None, None, None, None)
        EXCEPT !.blockchainContext = Some([isReorg |-> Some(TRUE), reorgDepth |-> Some(3)])]

GameCalls ==
    {Call(player1Address, makeMoveInput), Call(player1Lower, makeMoveInput),
     Call(player2Address, endGameInput)}

\* k nested calls that repeat the top-level call; the sender is filled in by
\* FromSender
SelfCalls(k) == [i \in 1..k |-> "self"]

FromSender(from, input, calls) ==
    IF IsNone(calls) THEN None
    ELSE Some([i \in 1..Len(Val(calls)) |-> Call(from, input)])

GameSenders == {player1Address, player2Address, sandwichBotAddress}

GameInputs == {makeMoveInput, createGameInput, joinGameInput, endGameInput, emptyInput}

GameRequests ==
    {Request(InScopePair[2], Trace(from, InScopePair[1], input, calls), ad) :
        from \in GameSenders, input \in GameInputs,
        calls \in Opt(SeqsUpTo(GameCalls, MaxCalls)),
        ad \in {None, Some(NoContext), Some(reorgBesideGameState),
                Some(OtherKeys(Some(normalTransactionContext), None, None, None,
                               None, None, None))}}
    \cup
    {Request(InScopePair[2], Trace(from, InScopePair[1], input, FromSender(from, input, calls)), ad) :
        from \in GameSenders, input \in GameInputs,
        calls \in {None} \cup {Some(SelfCalls(k)) : k \in {1, 2}},
        ad \in GameContexts}

InitGame ==
    /\ request \in GameRequests
    /\ Fresh

SpecGame == InitGame /\ [][Next]_vars

\* the value of a key of additionalData, or none
KeyOf(req, key) ==
    IF IsSome(req.additionalData) /\ key \in DOMAIN Val(req.additionalData)
    THEN Val(req.additionalData)[key]
    ELSE None

\* none of the five views the detectors read is supplied
NoViews(req) ==
    \A view \in {"mempoolContext", "blockchainContext", "liquidityContext",
                 "oracleContext", "multisigInfo"} : IsNone(KeyOf(req, view))

CreateGameWitness ==
    /\ pc = "done"
    /\ InScope(request)
    /\ IsNone(request.additionalData)
    /\ Invokes(request.trace.input, CREATE_GAME)
    /\ Len(CallsOf(request)) >= 2
    /\ HasEndGameCall(request)
    /\ Verdict = [detected |-> FALSE, message |-> None]

-----------------------------------------------------------------------------
(* Requests with every combination of present and absent views, each view   *)
(* with every combination of present and absent optional fields             *)

TotalityMempools ==
    Opt({Mempool(bt, pd, cur, pi, an) :
            bt \in Opt({sandwichBlock, benignBlock}), pd \in Opt({copiedPending}),
            cur \in Opt({copyingCurrent}), pi \in Opt({highPriceImpact}),
            an \in Opt({exactCopyAnalysis})})

TotalityBlockchains ==
    Opt({[isReorg |-> r, reorgDepth |-> d] : r \in Opt({TRUE}), d \in Opt({3})})

TotalityLiquidities ==
    Opt({[recentLiquidityEvents |-> ev, liquidityDuration |-> d] :
            ev \in Opt({jitEvents}), d \in Opt({10})})

TotalityOracles ==
    Opt({[recentOracleUpdates |-> up, volatilityAnalysis |-> va] :
            up \in Opt({calmUpdates}), va \in Opt({attackVolatilityAnalysis})})

TotalityRequests ==
    {Request(InScopePair[2], Trace(player1Address, InScopePair[1], makeMoveInput, calls),
             Some([mempoolContext |-> m, blockchainContext |-> b, liquidityContext |-> l,
                   oracleContext |-> o, multisigInfo |-> ms])) :
        calls \in {None, Some(bypassCalls)}, m \in TotalityMempools,
        b \in TotalityBlockchains, l \in TotalityLiquidities, o \in TotalityOracles,
        ms \in {None, Some([presentPlayers |-> 2, requiredPlayers |-> 2])}}

InitTotality ==
    /\ request \in TotalityRequests
    /\ Fresh

SpecTotality == InitTotality /\ [][Next]_vars

(* C12: on every request with a trace (nested calls present or absent) and  *)
(* every combination of present and absent views, each with any of its      *)
(* optional fields missing, detect never ends in an error and, once it has  *)
(* run, has returned a verdict with a boolean detected.                     *)
DetectIsTotal ==
    /\ pc \in {"ready", "done"}
    /\ pc = "done" => (IsSome(response) /\ Verdict.detected \in BOOLEAN)

\* every view is supplied without the optional field its detector reads
\* first, without nested calls, and detect has returned a negative verdict
PartialViewsWitness ==
    /\ pc = "done"
    /\ IsNone(request.trace.calls)
    /\ IsSome(mempoolContextOf(request))
    /\ IsNone(Val(mempoolContextOf(request)).blockTransactions)
    /\ IsSome(Val(mempoolContextOf(request)).pendingTransactions)
    /\ IsNone(Val(mempoolContextOf(request)).currentTransaction)
    /\ IsSome(blockchainContextOf(request))
    /\ IsNone(Val(blockchainContextOf(request)).reorgDepth)
    /\ IsSome(liquidityContextOf(request))
    /\ IsNone(Val(liquidityContextOf(request)).liquidityDuration)
    /\ IsSome(Val(liquidityContextOf(request)).recentLiquidityEvents)
    /\ IsSome(oracleContextOf(request))
    /\ IsNone(Val(oracleContextOf(request)).volatilityAnalysis)
    /\ IsSome(Val(oracleContextOf(request)).recentOracleUpdates)
    /\ Verdict = [detected |-> FALSE, message |-> None]

-----------------------------------------------------------------------------
(* Requests evaluated one after the other by the same service *)

MaxRequests == 3

\* player1 copies a pending move: reported only for a high-risk sender
copyingPlayer == Transaction(TargetHash, player1Address, <<"3", "5">>, strategicMoveInput)

HistoryRequests ==
    {Request(InScopePair[2], Trace(player1Address, InScopePair[1], makeMoveInput, calls), ad) :
        calls \in {None, Some(bypassCalls)},
        ad \in {None,
                Some([NoContext EXCEPT !.blockchainContext =
                         Some([isReorg |-> Some(TRUE), reorgDepth |-> Some(3)])]),
                Some([NoContext EXCEPT !.mempoolContext =
                         Some(Mempool(None, Some(copiedPending), Some(copyingPlayer),
                                      None, Some(exactCopyAnalysis)))])}}
    \cup {Request(OutOfScopePair[2], Trace(player1Address, OutOfScopePair[1], makeMoveInput, None), None)}

InitHistory ==
    /\ request \in HistoryRequests
    /\ Fresh

NextHistory ==
    \/ Detect
    \/ \E nextRequest \in HistoryRequests : Len(log) < MaxRequests /\ Receive(nextRequest)

SpecHistory == InitHistory /\ [][NextHistory]_vars

\* the calls that have returned: those of log and the one at hand
Evaluations ==
    {log[i] : i \in 1..Len(log)}
    \cup (IF pc = "done" THEN {[request |-> request, response |-> Val(response)]} ELSE {})

(* C13: the verdict depends on the request alone: all calls made with the   *)
(* same request, first or after any other requests, returned the same       *)
(* verdict, and the static tables (function selectors, known high-risk      *)
(* addresses) are what they were when the class was loaded.                 *)
VerdictDependsOnRequestAlone ==
    /\ \A e1, e2 \in Evaluations :
          e1.request = e2.request => e1.response.detectionInfo = e2.response.detectionInfo
    /\ statics = StaticTables

\* the copy-trade of player1 was evaluated first, then a reported request of
\* player1, then the copy-trade again with the same negative verdict
HistoryWitness ==
    /\ pc = "done"
    /\ Len(log) = 2
    /\ log[1].request = request
    /\ log[2].request # request
    /\ log[2].response.detectionInfo.detected = TRUE
    /\ IsSome(mempoolContextOf(request))
    /\ Verdict = [detected |-> FALSE, message |-> None]
    /\ log[1].response.detectionInfo = Verdict

-----------------------------------------------------------------------------
(* Requests of several protocols and chains, in and out of scope, reported  *)
(* and not reported                                                         *)

zeroAddress == "0x0000000000000000000000000000000000000000"

EchoRequests ==
    {[Request(protocolAddress, Trace(player1Address, to, input, None), ad)
         EXCEPT !.chainId = chainId, !.protocolName = protocolName] :
        protocolAddress \in {None, Some(zeroAddress), Some(contractAddress), Some(contractLower)},
        to \in {contractAddress, liquidityPoolAddress},
        input \in {makeMoveInput, emptyInput},
        ad \in {None,
                Some([NoContext EXCEPT !.blockchainContext =
                         Some([isReorg |-> Some(TRUE), reorgDepth |-> Some(3)])])},
        chainId \in {1, 17000},
        protocolName \in {"some protocol", "RockPaperScissors"}}

InitEcho ==
    /\ request \in EchoRequests
    /\ Fresh

SpecEcho == InitEcho /\ [][Next]_vars

(* C14: whether the verdict is positive or negative, the response carries   *)
(* the protocolName, the protocolAddress and the chainId of the request it  *)
(* answers.                                                                 *)
IdentityEcho ==
    pc = "done" =>
        /\ DetectionResponse(Val(response)).protocolName = request.protocolName
        /\ DetectionResponse(Val(response)).protocolAddress = request.protocolAddress
        /\ DetectionResponse(Val(response)).chainId = request.chainId

\* a reported request whose recipient spells the protocol address in another
\* letter case
IdentityEchoWitness ==
    /\ pc = "done"
    /\ InScope(request)
    /\ request.protocolAddress # Some(request.trace.to)
    /\ request.chainId = 1
    /\ request.protocolName = "some protocol"
    /\ DetectionResponse(Val(response)).detected = TRUE
    /\ DetectionResponse(Val(response)).protocolAddress = Some(contractLower)

\* an out-of-scope request of the zero address: negative verdict, same identity
IdentityEchoNegativeWitness ==
    /\ pc = "done"
    /\ request.protocolAddress = Some(zeroAddress)
    /\ DetectionResponse(Val(response)).detected = FALSE
    /\ DetectionResponse(Val(response)).protocolAddress = Some(zeroAddress)
    /\ DetectionResponse(Val(response)).chainId = 1

-----------------------------------------------------------------------------
(* The game-rule detectors the tests of the service expect: vocabulary *)

\* the text of a label, word by word
Words(label) ==
    CASE label = SANDWICH_MESSAGE ->
            <<"Sandwich", "attack", "pattern", "detected", ":", "Transaction", "is",
              "part", "of", "a", "sandwich", "attack", "that", "may", "extract",
              "value", "from", "players">>
      [] label = TIME_BANDIT_MESSAGE ->
            <<"Time-bandit", "attack", "detected", ":", "Potential", "chain",
              "reorganization", "targeting", "high-value", "games">>
      [] label = JIT_MESSAGE ->
            <<"JIT", "liquidity", "attack", "detected", ":", "Temporary", "liquidity",
              "provision", "to", "extract", "fees", "from", "players">>
      [] label = MULTISIG_MESSAGE ->
            <<"Multisig", "validation", "bypass", "attempt", "detected", ":",
              "Transaction", "attempts", "to", "circumvent", "two-player", "validation">>
      [] label = ORACLE_MESSAGE ->
            <<"Oracle", "manipulation", "attack", "detected", ":", "Price", "feed",
              "manipulation", "could", "affect", "game", "outcomes">>
      [] label = FRONTRUNNING_MESSAGE ->
            <<"Generalized", "frontrunning", "attack", "detected", ":", "Transaction",
              "copies", "player", "moves", "with", "higher", "gas", "price">>

\* the words of fragment occur in text, next to one another and in order
Contains(text, fragment) ==
    \E i \in 1..(Len(text) - Len(fragment) + 1) :
        SubSeq(text, i, i + Len(fragment) - 1) = fragment

\* the verdict is positive and its message contains the fragment
Reports(fragment) ==
    /\ Verdict.detected = TRUE
    /\ IsSome(Verdict.message)
    /\ Contains(Words(Val(Verdict.message)), fragment)

\* the nested calls sent by the sender of the transaction, letter case aside
CallsBySender(req) ==
    {i \in 1..Len(CallsOf(req)) : SameAddress(CallsOf(req)[i].from, req.trace.from)}

\* the players listed by the game state, if it lists any
PlayersOf(req) ==
    IF IsSome(KeyOf(req, "gameState")) THEN Val(KeyOf(req, "gameState")).players ELSE None

\* the gas price a gasPrice string stands for, in Gwei
Gwei(gasPrice) ==
    CASE gasPrice = "50000000000" -> 50
      [] gasPrice = "20000000000" -> 20

\* gas price, a pending transaction and timing data are all supplied
HasFrontrunPieces(req) ==
    /\ IsSome(KeyOf(req, "gasPrice"))
    /\ IsSome(KeyOf(req, "pendingTransactions"))
    /\ Len(Val(KeyOf(req, "pendingTransactions"))) >= 1
    /\ IsSome(KeyOf(req, "timingData"))

(* C15: an in-scope makeMove whose game state lists the players and whose   *)
(* sender is none of them is reported with a message containing             *)
(* 'Unauthorized player attempting to make move'; without a player list     *)
(* that message is not given.                                               *)
UnauthorizedActorReported ==
    (pc = "done" /\ InScope(request) /\ Invokes(request.trace.input, MAKE_MOVE)) =>
        LET unauthorized == <<"Unauthorized", "player", "attempting", "to", "make", "move">>
            players      == PlayersOf(request)
        IN  IF IsSome(players)
            THEN (\A i \in 1..Len(Val(players)) :
                      ~SameAddress(request.trace.from, Val(players)[i]))
                 => Reports(unauthorized)
            ELSE ~Reports(unauthorized)

(* C16: an in-scope request with two or more nested calls sent by the       *)
(* sender of the transaction (letter case aside) is reported with a message *)
(* containing 'Suspicious rapid sequential moves detected'.  Stated for     *)
(* requests to which no pattern of higher precedence applies: the top-level *)
(* selector is not _endGame and no game state is supplied.                  *)
RapidMovesReported ==
    ( /\ pc = "done"
      /\ InScope(request)
      /\ ~Invokes(request.trace.input, END_GAME)
      /\ IsNone(KeyOf(request, "gameState"))
      /\ Cardinality(CallsBySender(request)) >= 2 )
    => Reports(<<"Suspicious", "rapid", "sequential", "moves", "detected">>)

(* C17: an in-scope call of _endGame whose game state shows no round played *)
(* and the scores [0, 0] is reported with a message containing 'Attempt to  *)
(* end game prematurely detected', not with another label.                  *)
PrematureEndReported ==
    ( /\ pc = "done"
      /\ InScope(request)
      /\ Invokes(request.trace.input, END_GAME)
      /\ IsSome(KeyOf(request, "gameState"))
      /\ Val(KeyOf(request, "gameState")).roundsPlayed = Some(0)
      /\ Val(KeyOf(request, "gameState")).scores = Some(<<0, 0>>) )
    => Reports(<<"Attempt", "to", "end", "game", "prematurely", "detected">>)

(* C18: an in-scope request that supplies a gas price above 30 Gwei, at     *)
(* least one pending transaction and a submissionTimeDelta below 2 seconds  *)
(* is reported with a message containing 'Potential frontrunning attack     *)
(* detected'; with one of the three pieces missing that message is not      *)
(* given.  Stated for requests to which no pattern of higher precedence     *)
(* applies: not _endGame, no game state, fewer than two calls by the sender.*)
OpponentFrontrunReported ==
    ( /\ pc = "done"
      /\ InScope(request)
      /\ ~Invokes(request.trace.input, END_GAME)
      /\ IsNone(KeyOf(request, "gameState"))
      /\ Cardinality(CallsBySender(request)) < 2 )
    => LET potential == <<"Potential", "frontrunning", "attack", "detected">> IN
       IF HasFrontrunPieces(request)
       THEN ( /\ Gwei(Val(KeyOf(request, "gasPrice"))) > 30
              /\ Val(KeyOf(request, "timingData")).submissionTimeDelta.num
                    < 2 * Val(KeyOf(request, "timingData")).submissionTimeDelta.den )
            => Reports(potential)
       ELSE ~Reports(potential)

(* C19: an in-scope createGame whose additionalData holds a                 *)
(* gameCreationHistory of six small-stake games created within seconds of   *)
(* one another and a suspiciousPattern marker is reported with a message    *)
(* containing 'Unusual stake pattern detected'.                             *)
UnusualStakeReported ==
    ( /\ pc = "done"
      /\ InScope(request)
      /\ Invokes(request.trace.input, CREATE_GAME)
      /\ IsSome(KeyOf(request, "gameCreationHistory"))
      /\ Len(Val(KeyOf(request, "gameCreationHistory"))) >= 6
      /\ IsSome(KeyOf(request, "suspiciousPattern")) )
    => Reports(<<"Unusual", "stake", "pattern", "detected">>)

-----------------------------------------------------------------------------
(* The protected write of the front end: the hook useVennProtectedWrite and *)
(* the VennClient singleton it calls.  protectedWrite is asynchronous: an   *)
(* action is the code it runs between two awaits on the outside (the SDK's  *)
(* approve, the wallet's writeContract).  One call is in progress at a time. *)

MaxWrites == 2

detectVars == <<request, response, pc, statics, log>>

\* the handle that `new VennSDK({vennURL, vennPolicyAddress, strict: true})`
\* yields when it does not throw
VennSDK == [vennPolicyAddress |-> "0x549b94dC5C2c943397bf3097963a6Da1a94fda2C", strict |-> TRUE]

\* useChainId: the chain of the connected wallet
chainId == 17000

\* the functions of the game contract's ABI
abi == {"createGame", "makeMove"}

\* encodeFunctionData throws for a function the ABI does not have
encodeFunctionDataThrows(p) == p.functionName \notin p.abi

\* encodeFunctionData: the call data of a function of the ABI
encodeFunctionData(p) == IF p.functionName = "makeMove" THEN MAKE_MOVE ELSE CREATE_GAME

\* the parameters protectedWrite is called with; value is optional
WriteContractParams ==
    [address : {contractAddress}, abi : {abi}, functionName : {"makeMove", "withdrawAll"},
     value : {None, Some(0), Some(1)}]

\* x || y on an optional bigint: undefined and 0n are falsy
ValueOr(x, y) == IF IsNone(x) \/ Val(x) = 0 THEN y ELSE Val(x)

\* x ?? y on an optional string: only undefined gives way to y
DataOrUndefined(x, y) == IF IsNone(x) THEN y ELSE Val(x)

\* x || y on an optional string: undefined and '' are falsy
DataOr(x, y) == IF IsNone(x) \/ Val(x) = <<>> THEN y ELSE Val(x)

\* the transaction object protectedWrite builds for approval
TransactionForApproval(p, encodedData) ==
    [from |-> Val(walletAddress), to |-> p.address, data |-> encodedData,
     value |-> ValueOr(p.value, 0), chainId |-> chainId]

\* bigint.toString() on the values in use
toString(n) == IF n = 0 THEN "0" ELSE "1"

\* prepareTxForVenn: a copy of the transaction with a bigint value as string
prepareTxForVenn(tx) == [tx EXCEPT !.value = toString(tx.value)]

\* what the SDK's approve may resolve to: a result without data, with empty
\* data, or with signed data
ApprovedDatas == {None, Some(<<>>), Some(<<"0x", "signed">>)}

\* the parameters handed to writeContract: value only when params.value is
\* defined
writeParams(p, approved) ==
    [address |-> p.address, abi |-> p.abi, data |-> approved.data, value |-> p.value]

Toast(kind, message) == [kind |-> kind, message |-> message]

\* the calls of protectedWrite that have returned: each ends in exactly one
\* error or success toast
Finished == Len(SelectSeq(toasts, LAMBDA toast : toast.kind \in {"error", "success"}))

\* protectedWrite is called: from the wallet check up to its first await on
\* the outside.  Without an SDK handle approveTransaction returns the
\* transaction as it is, and protectedWrite goes on to writeContract.
protectedWrite(p) ==
    /\ wpc = "idle"
    /\ Finished < MaxWrites
    /\ params' = Some(p)
    /\ IF IsNone(walletAddress)
       THEN /\ toasts' = Append(toasts, Toast("error", "Wallet not connected"))
            /\ transaction' = None
            /\ approvedTx' = None
            /\ UNCHANGED <<wpc, writes>>
       ELSE IF encodeFunctionDataThrows(p)
       THEN /\ toasts' = toasts \o
                  << Toast("loading", "Preparing transaction with Venn protection..."),
                     Toast("error", "errorMessage") >>
            /\ transaction' = None
            /\ approvedTx' = None
            /\ UNCHANGED <<wpc, writes>>
       ELSE LET tx == TransactionForApproval(p, encodeFunctionData(p)) IN
            /\ transaction' = Some(tx)
            /\ IF IsNone(vennClient)
               THEN /\ approvedTx' = Some(tx)
                    /\ toasts' = toasts \o
                          << Toast("loading", "Preparing transaction with Venn protection..."),
                             Toast("loading", "Getting Venn approval..."),
                             Toast("loading", "Sending approved transaction...") >>
                    /\ writes' = Append(writes, [call |-> Finished + 1, params |-> writeParams(p, tx), result |-> "pending"])
                    /\ wpc' = "submitting"
               ELSE /\ approvedTx' = None
                    /\ toasts' = toasts \o
                          << Toast("loading", "Preparing transaction with Venn protection..."),
                             Toast("loading", "Getting Venn approval...") >>
                    /\ wpc' = "approving"
                    /\ UNCHANGED writes
    /\ UNCHANGED <<vennClient, walletAddress, approvals, vennErrors, detectVars>>

\* the SDK's approve resolves: approveTransaction returns the transaction with
\* the approved data (the original data when there is none), and
\* protectedWrite calls writeContract
approveResolves(data) ==
    /\ wpc = "approving"
    /\ LET tx == Val(transaction)
           approved == [tx EXCEPT !.data = DataOr(data, tx.data)]
       IN /\ approvals' = Append(approvals,
                 [call |-> Finished + 1, transaction |-> prepareTxForVenn(tx), data |-> data])
          /\ approvedTx' = Some(approved)
          /\ writes' = Append(writes, [call |-> Finished + 1, params |-> writeParams(Val(params), approved), result |-> "pending"])
    /\ toasts' = Append(toasts, Toast("loading", "Sending approved transaction..."))
    /\ wpc' = "submitting"
    /\ UNCHANGED <<vennClient, walletAddress, params, transaction, vennErrors, detectVars>>

\* an approveTransaction that, when the SDK's approve rejects, logs the error
\* and returns the transaction as it was
approveRejectsFallingBack ==
    /\ wpc = "approving"
    /\ vennErrors' = Append(vennErrors, [call |-> Finished + 1, transaction |-> Val(transaction)])
    /\ approvedTx' = transaction
    /\ writes' = Append(writes, [call |-> Finished + 1, params |-> writeParams(Val(params), Val(transaction)), result |-> "pending"])
    /\ toasts' = Append(toasts, Toast("loading", "Sending approved transaction..."))
    /\ wpc' = "submitting"
    /\ UNCHANGED <<vennClient, walletAddress, params, transaction, approvals, detectVars>>

\* the SDK's approve rejects: approveTransaction logs and rethrows, and the
\* catch of protectedWrite shows the error
approveRejects ==
    /\ wpc = "approving"
    /\ vennErrors' = Append(vennErrors, [call |-> Finished + 1, transaction |-> Val(transaction)])
    /\ toasts' = Append(toasts, Toast("error", "errorMessage"))
    /\ wpc' = "idle"
    /\ UNCHANGED <<vennClient, walletAddress, params, transaction, approvedTx, approvals, writes, detectVars>>

\* writeContract returns: the success toast
writeContractReturns ==
    /\ wpc = "submitting"
    /\ writes' = [writes EXCEPT ![Len(writes)].result = "returned"]
    /\ toasts' = Append(toasts, Toast("success", "Transaction submitted with Venn protection"))
    /\ wpc' = "idle"
    /\ UNCHANGED <<vennClient, walletAddress, params, transaction, approvedTx, approvals, vennErrors, detectVars>>

\* a protectedWrite that awaits writeContract outside its try block: the
\* error goes to the caller
writeContractThrowsUncaught ==
    /\ wpc = "submitting"
    /\ writes' = [writes EXCEPT ![Len(writes)].result = "threw"]
    /\ wpc' = "idle"
    /\ UNCHANGED <<vennClient, walletAddress, params, transaction, approvedTx, approvals, toasts, vennErrors, detectVars>>

\* writeContract throws: the catch of protectedWrite shows the error
writeContractThrows ==
    /\ wpc = "submitting"
    /\ writes' = [writes EXCEPT ![Len(writes)].result = "threw"]
    /\ toasts' = Append(toasts, Toast("error", "errorMessage"))
    /\ wpc' = "idle"
    /\ UNCHANGED <<vennClient, walletAddress, params, transaction, approvedTx, approvals, vennErrors, detectVars>>

\* the singleton after its constructor ran: with the SDK handle, or without it
\* when `new VennSDK` threw; a wallet is connected or not
InitWrite ==
    /\ request = Request(InScopePair[2], Trace(player1Address, InScopePair[1], createGameInput, None), None)
    /\ response = None
    /\ pc = "ready"
    /\ statics = StaticTables
    /\ log = <<>>
    /\ vennClient \in {None, Some(VennSDK)}
    /\ walletAddress \in {None, Some(player1Address)}
    /\ wpc = "idle"
    /\ params = None
    /\ transaction = None
    /\ approvedTx = None
    /\ approvals = <<>>
    /\ writes = <<>>
    /\ toasts = <<>>
    /\ vennErrors = <<>>

NextWrite ==
    \/ \E p \in WriteContractParams : protectedWrite(p)
    \/ \E data \in ApprovedDatas : approveResolves(data)
    \/ approveRejects
    \/ writeContractReturns
    \/ writeContractThrows

SpecWrite == InitWrite /\ [][NextWrite]_vars

(* C20: every transaction protectedWrite hands to writeContract was approved *)
(* by the Venn network before: the SDK's approve has resolved for the        *)
(* transaction of that call, to the same contract, whatever the state of the *)
(* VennClient singleton and whatever data the approval carried.              *)
ApprovedBeforeSubmission ==
    \A i \in 1..Len(writes) :
        \E j \in 1..Len(approvals) :
            /\ approvals[j].call = writes[i].call
            /\ approvals[j].transaction.to = writes[i].params.address

-----------------------------------------------------------------------------
\* the toasts that end a call of protectedWrite, in the order of the calls
FinalToasts == SelectSeq(toasts, LAMBDA toast : toast.kind \in {"error", "success"})

(* C21: a transaction whose Venn approve call threw is never handed to      *)
(* writeContract, and the call of protectedWrite that asked for it ends in  *)
(* an error toast, not in the success toast.                                *)
RejectedNeverSubmitted ==
    \A k \in 1..Len(vennErrors) :
        LET call == vennErrors[k].call
        IN /\ \A i \in 1..Len(writes) : writes[i].call # call
           /\ Len(FinalToasts) >= call
           /\ FinalToasts[call].kind = "error"

\* a rejected call has returned, and another call of the same session went
\* through to writeContract
RejectedWitness ==
    /\ Len(vennErrors) >= 1
    /\ wpc = "idle"
    /\ Len(writes) >= 1
    /\ writes[1].call # vennErrors[1].call

-----------------------------------------------------------------------------
\* the amount a call of writeContract sends: none when no value is given
ValueCarried(wp) == IF IsNone(wp.value) THEN 0 ELSE Val(wp.value)

\* the number a decimal string of the SDK request stands for
DecimalValue(s) == IF s = "0" THEN 0 ELSE IF s = "1" THEN 1 ELSE -1

(* C22: when approveTransaction has returned, the transaction it returned   *)
(* has the from, to, value and chainId of the one it was given and non-empty *)
(* data: the approved data, or the original data when the approval carried  *)
(* none.  What protectedWrite then hands to writeContract goes to the same   *)
(* contract with the same value (and the returned data) as what was sent    *)
(* for approval.                                                            *)
ApprovalChangesOnlyData ==
    IsSome(approvedTx) =>
        /\ IsSome(transaction)
        /\ Len(writes) >= 1
        /\ LET tx == Val(transaction)
               approved == Val(approvedTx)
               sent == writes[Len(writes)]
           IN /\ approved.from = tx.from
              /\ approved.to = tx.to
              /\ approved.value = tx.value
              /\ approved.chainId = tx.chainId
              /\ approved.data # <<>>
              /\ sent.params.address = tx.to
              /\ ValueCarried(sent.params) = tx.value
              /\ sent.params.data = approved.data
              /\ IF IsNone(vennClient)
                 THEN approved.data = tx.data
                 ELSE /\ Len(approvals) >= 1
                      /\ LET approval == approvals[Len(approvals)]
                         IN /\ approval.call = sent.call
                            /\ approval.transaction.to = sent.params.address
                            /\ DecimalValue(approval.transaction.value) = ValueCarried(sent.params)
                            /\ approved.data = (IF approval.data \in {None, Some(<<>>)} THEN tx.data ELSE Val(approval.data))

\* an approval that came back with empty data, for a call without value
EmptyApprovalWitness ==
    /\ IsSome(approvedTx)
    /\ Len(approvals) >= 1
    /\ approvals[Len(approvals)].data = Some(<<>>)
    /\ IsNone(Val(params).value)
    /\ Val(approvedTx).data = MAKE_MOVE

\* an approval that came back with signed data, for a call with a value
SignedApprovalWitness ==
    /\ IsSome(approvedTx)
    /\ Len(approvals) >= 1
    /\ approvals[Len(approvals)].data = Some(<<"0x", "signed">>)
    /\ Val(params).value = Some(1)
    /\ Val(approvedTx).data # MAKE_MOVE

-----------------------------------------------------------------------------
(* Requests for the price-impact gate of the sandwich detector: a sandwich  *)
(* around the target and a block without one, with no price-impact figures  *)
(* and with every pair of figures below, at and above a total of 1.0        *)

ImpactFigures ==
    {<<"0">>, <<"0", ".", "4">>, <<"0", ".", "5", "%">>, <<"0", ".", "6", "%">>, <<"1">>,
     <<"1", ".", "0", "1", "%">>, <<"2", ".", "5", "%">>, <<"-", "1">>}

ImpactRequests ==
    {Request(sp[2], Trace(player1Address, sp[1], createGameInput, None),
             Some([NoContext EXCEPT !.mempoolContext = Some(Mempool(Some(txs), None, None, pi, None))])) :
        sp \in {InScopePair, OutOfScopePair},
        txs \in {sandwichBlock, benignBlock},
        pi \in {None} \cup {Some([before |-> b, after |-> a]) : b \in ImpactFigures, a \in ImpactFigures}}

InitImpact ==
    /\ request \in ImpactRequests
    /\ Fresh

SpecImpact == InitImpact /\ [][Next]_vars

\* the figure a price-impact string stands for, in hundredths
Hundredths(figure) ==
    CASE figure = <<"0">>                          -> 0
      [] figure = <<"0", ".", "4">>                -> 40
      [] figure = <<"0", ".", "5", "%">>           -> 50
      [] figure = <<"0", ".", "6", "%">>           -> 60
      [] figure = <<"1">>                          -> 100
      [] figure = <<"1", ".", "0", "1", "%">>      -> 101
      [] figure = <<"2", ".", "5", "%">>           -> 250
      [] figure = <<"-", "1">>                     -> 0 - 100

\* the total of the two price-impact figures of req, in hundredths
ImpactTotal(req) ==
    Hundredths(Val(Val(mempoolContextOf(req)).priceImpact).before)
        + Hundredths(Val(Val(mempoolContextOf(req)).priceImpact).after)

(* C23: on a request with the structure of a sandwich the sandwich detector *)
(* matches without price-impact figures; with figures it matches exactly    *)
(* when before + after is strictly greater than 1.0, so a total of exactly  *)
(* 1.0 or less gives no match.  An in-scope request carries the sandwich    *)
(* label in exactly these cases.                                            *)
PriceImpactGate ==
    SandwichStructure(request) =>
        LET passes == NoPriceImpact(request) \/ ImpactTotal(request) > 100
        IN  /\ isSandwichAttackPattern(request) <=> passes
            /\ (pc = "done" /\ InScope(request)) =>
                  (Verdict.message = Some(SANDWICH_MESSAGE) <=> passes)

\* a sandwich whose figures 0.4 and 0.6% add up to exactly 1.0: not reported
PriceImpactWitness ==
    /\ pc = "done"
    /\ InScope(request)
    /\ SandwichStructure(request)
    /\ ~NoPriceImpact(request)
    /\ ImpactTotal(request) = 100
    /\ Val(Val(mempoolContextOf(request)).priceImpact).before = <<"0", ".", "4">>
    /\ Verdict.detected = FALSE

-----------------------------------------------------------------------------
\* the events of req follow the JIT pattern in order: an add, later a
\* playerTransaction, later a remove
JITOrdered(req) ==
    LET ev == EventsOf(req)
    IN  \E i, j, k \in 1..Len(ev) :
            /\ i < j
            /\ j < k
            /\ ev[i].type = "add"
            /\ ev[j].type = "playerTransaction"
            /\ ev[k].type = "remove"

(* C24: the JIT detector matches only when the liquidity events contain an  *)
(* add before a playerTransaction before a remove; events of the three      *)
(* kinds in another order are not reported with the JIT label.              *)
JITOnlyInOrder ==
    ReachedJIT =>
        /\ isJITLiquidityAttack(request) => JITOrdered(request)
        /\ Verdict.message = Some(JIT_MESSAGE) => JITOrdered(request)

-----------------------------------------------------------------------------
\* the number an oracle value string stands for
OracleValue(value) ==
    CASE value = <<"0">>           -> 0
      [] value = <<"1", "0", "0">> -> 100
      [] value = <<"1", "2", "0">> -> 120

\* the update changes the value by more than 10 percent of the old value, in
\* either direction (any change from an old value of 0 is beyond every
\* percentage)
RawChangeAbove10(update) ==
    LET old    == OracleValue(update.oldValue)
        new    == OracleValue(update.newValue)
        change == IF new >= old THEN new - old ELSE old - new
    IN  IF old = 0 THEN new # 0 ELSE 100 * change > 10 * old

\* update number i of req is a raw change above 10 percent by a high-risk
\* updater
SuspiciousUpdate(req, i) ==
    RawChangeAbove10(UpdatesOf(req)[i]) /\ HighRisk(UpdatesOf(req)[i].updater)

(* C25: with at least two oracle updates and no volatility summary the      *)
(* oracle detector matches exactly when some update of the list, at any     *)
(* position including the last, changes the value by more than 10 percent   *)
(* and was made by a high-risk updater.                                     *)
RawPathExaminesEveryUpdate ==
    (ReachedOracle /\ Len(UpdatesOf(request)) >= 2 /\ IsNone(VolatilityOf(request))) =>
        OracleAnswer(\E i \in 1..Len(UpdatesOf(request)) : SuspiciousUpdate(request, i))

\* the same statement with the last update left out: the detector examines
\* every update but the last
RawPathExaminesAllButLast ==
    (ReachedOracle /\ Len(UpdatesOf(request)) >= 2 /\ IsNone(VolatilityOf(request))) =>
        OracleAnswer(\E i \in 1..(Len(UpdatesOf(request)) - 1) : SuspiciousUpdate(request, i))

-----------------------------------------------------------------------------
(* C27: under the makeMove selector and with no multisigInfo, or with fewer *)
(* players present than required, the multisig-bypass detector matches for  *)
(* every nested-call list that holds a call invoking _endGame, a list of    *)
(* that one call included: the number of other calls makes no difference.   *)
OneOffendingCallSuffices ==
    ( /\ ReachedMultisig
      /\ Invokes(request.trace.input, MAKE_MOVE)
      /\ SignersMissing(request)
      /\ Len(CallsOf(request)) >= 1
      /\ HasEndGameCall(request) )
    => MultisigAnswer(TRUE)

-----------------------------------------------------------------------------
\* what every match of the generalized front-running detector needs: a
\* current transaction, a pending transaction, a high-risk current sender
FrontrunPreconditions(req) ==
    /\ IsSome(CurrentOf(req))
    /\ Len(PendingOf(req)) > 0
    /\ HighRisk(Val(CurrentOf(req)).from)

\* the similarity analysis of req marks an exact copy with 100% similarity
ExactCopyAnalysis(req) ==
    /\ IsSome(mempoolContextOf(req))
    /\ IsSome(Val(mempoolContextOf(req)).similarityAnalysis)
    /\ Val(Val(mempoolContextOf(req)).similarityAnalysis).isExactCopy
    /\ Val(Val(mempoolContextOf(req)).similarityAnalysis).inputSimilarity = "100%"

(* C28: the generalized front-running detector matches only when the        *)
(* mempool context holds a current transaction, a non-empty pending list    *)
(* and a current sender of the high-risk set, on the pending-scan path and  *)
(* on the similarity path alike: an exact copy at 100% similarity is not    *)
(* reported with an empty pending list or without a current transaction,    *)
(* and a copied pending transaction is not reported for another sender.     *)
FrontrunNecessaryConditions ==
    /\ isGeneralizedFrontrunning(request) => FrontrunPreconditions(request)
    /\ (pc = "done" /\ Verdict.message = Some(FRONTRUNNING_MESSAGE)) => FrontrunPreconditions(request)
    /\ (ReachedFrontrun /\ ~FrontrunPreconditions(request)) => FrontrunAnswer(FALSE)

\* a pending transaction copied at a higher gas price by a sender outside
\* the high-risk set, with an exact-copy analysis beside it: not reported
FrontrunNecessaryWitness ==
    /\ pc = "done"
    /\ InScope(request)
    /\ IsSome(CurrentOf(request))
    /\ ~HighRisk(Val(CurrentOf(request)).from)
    /\ Len(PendingOf(request)) >= 1
    /\ CopiedBy(request, 1)
    /\ ExactCopyAnalysis(request)
    /\ Verdict.detected = FALSE

\* an exact-copy analysis and a high-risk current sender with an empty
\* pending list: not reported
FrontrunEmptyPendingWitness ==
    /\ pc = "done"
    /\ InScope(request)
    /\ IsSome(CurrentOf(request))
    /\ HighRisk(Val(CurrentOf(request)).from)
    /\ Len(PendingOf(request)) = 0
    /\ ExactCopyAnalysis(request)
    /\ Verdict.detected = FALSE

-----------------------------------------------------------------------------
(* Requests that spell their addresses in either letter case: the recipient *)
(* and the protocol address, the outer senders of a sandwich, the liquidity *)
(* provider, the oracle updater, the current and the pending sender.  The   *)
(* service evaluates one spelling, then another.                            *)

CaseContexts ==
    {[NoContext EXCEPT !.mempoolContext =
         Some(Mempool(Some(<<Transaction(OtherHash, first, <<"3", "5">>, joinGameInput),
                             Transaction(TargetHash, player1Address, <<"3", "0">>, createGameInput),
                             Transaction(OtherHash, last, <<"3", "5">>, makeMoveInput)>>),
                      None, None, None, None))] :
        first \in {sandwichBotAddress, sandwichBotLower}, last \in {sandwichBotAddress, sandwichBotLower}}
    \cup
    {[NoContext EXCEPT !.liquidityContext =
         Some([recentLiquidityEvents |->
                  Some(<<LiquidityEvent("add", provider, <<"1", "0", "0">>),
                         LiquidityEvent("playerTransaction", player1Address, <<"1", "0">>),
                         LiquidityEvent("remove", provider, <<"1", "0", "0">>)>>),
               liquidityDuration |-> Some(10)])] :
        provider \in {mevBotAddress, mevBotLower}}
    \cup
    {[NoContext EXCEPT !.oracleContext =
         Some([recentOracleUpdates |->
                  Some(<<OracleUpdate(<<"1", "0", "0">>, <<"1", "2", "0">>, updater),
                         OracleUpdate(<<"1", "2", "0">>, <<"1", "2", "0">>, player1Address)>>),
               volatilityAnalysis |-> None])] :
        updater \in {mevBotAddress, mevBotLower}}
    \cup
    {[NoContext EXCEPT !.mempoolContext =
         Some(Mempool(None,
                      Some(<<Transaction(OtherHash, pending, <<"2", "5">>, strategicMoveInput)>>),
                      Some(Transaction(TargetHash, current, <<"3", "5">>, strategicMoveInput)),
                      None, None))] :
        pending \in {player2Address, player2Lower, mevBotLower},
        current \in {mevBotAddress, mevBotLower}}

CaseRequests ==
    {Request(Some(protocol), Trace(player1Address, to, createGameInput, None), Some(ad)) :
        protocol \in {contractAddress, contractLower},
        to \in {contractAddress, contractLower, liquidityPoolAddress},
        ad \in CaseContexts}

InitCase ==
    /\ request \in CaseRequests
    /\ Fresh

NextCase ==
    \/ Detect
    \/ \E nextRequest \in CaseRequests : Len(log) < 1 /\ Receive(nextRequest)

SpecCase == InitCase /\ [][NextCase]_vars

\* the account an address belongs to, whatever its spelling
Account(a) ==
    IF \E acc \in Accounts : a \in acc THEN CHOOSE acc \in Accounts : a \in acc ELSE {a}

FoldOpt(x, F(_)) == IF IsNone(x) THEN None ELSE Some(F(Val(x)))

FoldTx(tx) == [tx EXCEPT !.from = Account(@), !.to = Account(@)]

FoldTxs(txs) == [i \in 1..Len(txs) |-> FoldTx(txs[i])]

FoldMempool(m) ==
    [m EXCEPT !.blockTransactions = FoldOpt(@, FoldTxs),
              !.pendingTransactions = FoldOpt(@, FoldTxs),
              !.currentTransaction = FoldOpt(@, FoldTx)]

FoldEvents(events) == [i \in 1..Len(events) |-> [events[i] EXCEPT !.address = Account(@)]]

FoldLiquidity(l) == [l EXCEPT !.recentLiquidityEvents = FoldOpt(@, FoldEvents)]

FoldUpdates(updates) == [i \in 1..Len(updates) |-> [updates[i] EXCEPT !.updater = Account(@)]]

FoldOracle(o) == [o EXCEPT !.recentOracleUpdates = FoldOpt(@, FoldUpdates)]

FoldContext(ad) ==
    [ad EXCEPT !.mempoolContext = FoldOpt(@, FoldMempool),
               !.liquidityContext = FoldOpt(@, FoldLiquidity),
               !.oracleContext = FoldOpt(@, FoldOracle)]

\* the request with every address replaced by its account: two requests
\* have the same fold exactly when they differ in address letter case only
Fold(req) ==
    [req EXCEPT !.protocolAddress = FoldOpt(@, Account),
                !.trace = [@ EXCEPT !.from = Account(@), !.to = Account(@)],
                !.additionalData = FoldOpt(@, FoldContext)]

(* C29: two requests that differ only in the letter case of addresses (the  *)
(* recipient, the protocol address, the senders of block, pending and       *)
(* current transactions, the liquidity provider, the oracle updaters) get   *)
(* the same detected and message values.                                    *)
AddressCaseInvariance ==
    \A e1, e2 \in Evaluations :
        Fold(e1.request) = Fold(e2.request) => e1.response.detectionInfo = e2.response.detectionInfo

\* a sandwich reported under two spellings of the bot's address and of the
\* protocol address
AddressCaseWitness ==
    /\ pc = "done"
    /\ Len(log) = 1
    /\ log[1].request # request
    /\ Fold(log[1].request) = Fold(request)
    /\ log[1].request.protocolAddress # request.protocolAddress
    /\ IsSome(Val(request.additionalData).mempoolContext)
    /\ IsSome(Val(Val(request.additionalData).mempoolContext).blockTransactions)
    /\ Verdict.message = Some(SANDWICH_MESSAGE)

-----------------------------------------------------------------------------
\* call number c of protectedWrite has returned and its closing toast is of
\* the kind
ClosedWith(c, kind) == Len(FinalToasts) >= c /\ FinalToasts[c].kind = kind

(* C30: without a connected wallet protectedWrite only shows the error      *)
(* 'Wallet not connected': Venn is asked for no approval and writeContract  *)
(* is not called.  Every call returns to its caller with a closing toast:   *)
(* an error toast after a rejected approval or a failed writeContract, and  *)
(* the success toast only after writeContract returned without error.       *)
NoWalletNoTraffic ==
    /\ IsNone(walletAddress) =>
          /\ wpc = "idle"
          /\ approvals = <<>>
          /\ vennErrors = <<>>
          /\ writes = <<>>
          /\ \A k \in 1..Len(toasts) : toasts[k] = Toast("error", "Wallet not connected")
    /\ \A i \in 1..Len(writes) :
          /\ writes[i].result = "threw" => ClosedWith(writes[i].call, "error")
          /\ writes[i].result = "returned" => ClosedWith(writes[i].call, "success")
          /\ writes[i].result = "pending" => (wpc = "submitting" /\ i = Len(writes))
    /\ \A k \in 1..Len(vennErrors) : ClosedWith(vennErrors[k].call, "error")
    /\ \A c \in 1..Len(FinalToasts) :
          FinalToasts[c].kind = "success" =>
              \E i \in 1..Len(writes) : writes[i].call = c /\ writes[i].result = "returned"
    /\ wpc = "idle" => (IsSome(params) => Len(FinalToasts) >= 1)

\* protectedWrite was called twice without a wallet
NoWalletWitness ==
    /\ IsNone(walletAddress)
    /\ IsSome(params)
    /\ wpc = "idle"
    /\ Len(toasts) = 2

\* a call whose writeContract threw, closed with an error toast
WriteFailedWitness ==
    /\ wpc = "idle"
    /\ Len(writes) >= 1
    /\ writes[1].result = "threw"
    /\ ClosedWith(1, "error")

====
